---- MODULE Spec2Model ----
(***************************************************************************)
(* Verification model of HybridSemanticSkillMatcher                        *)
(* (src/src/analyzers/skill_matcher_hybrid.py) and of SkillExtractor       *)
(* (src/src/extractors/skill_extractor.py) over the SkillTaxonomy          *)
(* (src/src/nlp/skill_taxonomy.py).                                        *)
(*                                                                         *)
(* Representation:                                                         *)
(*   - a Python str is a sequence of one-character strings, so that        *)
(*     lower(), the \b...\b regex search, str.count and " ".join are       *)
(*     computed character by character;                                    *)
(*   - an insertion-ordered dict is a sequence of [name, ...] records in   *)
(*     insertion order; a JSON object whose keys may be absent is a        *)
(*     record whose DOMAIN holds exactly the keys that are present;        *)
(*   - a Python float is an IEEE-754 binary64 value [m, e] = m * 2^e with  *)
(*     a 53-bit mantissa held as a multi-limb natural number, and every    *)
(*     float operation rounds to nearest-even as the hardware does;        *)
(*   - a float that went through round(x, 1) is held as its integer        *)
(*     number of tenths;                                                   *)
(*   - a local of the code that is read more than once is the parameter    *)
(*     of a local operator (LET F(x) == ... IN F(e)), evaluated once.      *)
(***************************************************************************)
EXTENDS Integers, Sequences, FiniteSets, TLC

\* ======================= characters and strings =======================

UpperChars == <<"A","B","C","D","E","F","G","H","I","J","K","L","M",
                "N","O","P","Q","R","S","T","U","V","W","X","Y","Z">>

LowerChars == <<"a","b","c","d","e","f","g","h","i","j","k","l","m",
                "n","o","p","q","r","s","t","u","v","w","x","y","z">>

DigitChars == <<"0","1","2","3","4","5","6","7","8","9">>

\* printable ASCII other than letters and digits that the inputs use
PunctChars == <<" ", ",", ".", "+", "#", "-", "_", "/", ";">>

Range(s) == {s[i] : i \in DOMAIN s}

IndexOf(s, x) == CHOOSE i \in DOMAIN s : s[i] = x

UpperSet == Range(UpperChars)

\* the regex class \w
WordSet == Range(UpperChars) \cup Range(LowerChars) \cup Range(DigitChars) \cup {"_"}

LowerOf == [c \in UpperSet |-> LowerChars[IndexOf(UpperChars, c)]]

\* ord() of an ASCII character
OrdOf ==
    [c \in WordSet \cup Range(PunctChars) |->
        IF c \in Range(UpperChars) THEN 64 + IndexOf(UpperChars, c)
        ELSE IF c \in Range(LowerChars) THEN 96 + IndexOf(LowerChars, c)
        ELSE IF c \in Range(DigitChars) THEN 47 + IndexOf(DigitChars, c)
        ELSE <<32, 44, 46, 43, 35, 45, 95, 47, 59>>[IndexOf(PunctChars, c)]]

\* str.lower() on one character
LowerChar(c) == IF c \in UpperSet THEN LowerOf[c] ELSE c

\* str.lower()
Lower(s) == [i \in DOMAIN s |-> LowerChar(s[i])]

IsWordChar(c) == c \in WordSet

\* str.encode() of ASCII text
Encode(s) == [i \in DOMAIN s |-> OrdOf[s[i]]]

\* sep.join(parts)
RECURSIVE Join(_, _)
Join(sep, parts) ==
    IF Len(parts) = 0 THEN <<>>
    ELSE IF Len(parts) = 1 THEN parts[1]
    ELSE parts[1] \o sep \o Join(sep, Tail(parts))

\* s[i : i + len(p)] == p
MatchAt(s, p, i) ==
    /\ i >= 1
    /\ i + Len(p) - 1 <= Len(s)
    /\ \A j \in 1..Len(p) : s[i + j - 1] = p[j]

\* the regex assertion \b between s[k-1] and s[k] (k in 1..Len(s)+1)
WordBoundary(s, k) ==
    LET before == k - 1 >= 1 /\ IsWordChar(s[k - 1])
        after  == k <= Len(s) /\ IsWordChar(s[k])
    IN  before # after

\* variant of the search without the two \b assertions: p anywhere in s
WholeWordSearchAnywhere(p, s) ==
    \E i \in 1..(Len(s) + 1) : MatchAt(s, p, i)

\* re.search(r'\b' + re.escape(p) + r'\b', s) is not None
WholeWordSearch(p, s) ==
    \E i \in 1..(Len(s) + 1) :
        /\ MatchAt(s, p, i)
        /\ WordBoundary(s, i)
        /\ WordBoundary(s, i + Len(p))

\* s.count(p): number of non-overlapping occurrences, scanning left to right
RECURSIVE CountFrom(_, _, _)
CountFrom(s, p, i) ==
    IF i + Len(p) - 1 > Len(s) THEN 0
    ELSE IF MatchAt(s, p, i) THEN 1 + CountFrom(s, p, i + Len(p))
    ELSE CountFrom(s, p, i + 1)

StrCount(s, p) == IF Len(p) = 0 THEN Len(s) + 1 ELSE CountFrom(s, p, 1)

\* str(n) for n >= 0
RECURSIVE IntToStr(_)
IntToStr(n) ==
    IF n < 10 THEN <<DigitChars[n + 1]>>
    ELSE IntToStr(n \div 10) \o <<DigitChars[(n % 10) + 1]>>

\* ================== multi-limb natural numbers ==================
\* A natural number is a little-endian sequence of limbs in 0..LimbBase-1
\* without leading zero limbs; <<>> is zero.  TLC integers are 32-bit, a
\* binary64 mantissa has 53 bits and a product of two has 106.

LimbBits == 14

LimbBase == 16384

Min(a, b) == IF b < a THEN b ELSE a

Max(a, b) == IF b > a THEN b ELSE a

RECURSIVE BNorm(_)
BNorm(a) ==
    IF Len(a) = 0 THEN a
    ELSE IF a[Len(a)] = 0 THEN BNorm(SubSeq(a, 1, Len(a) - 1))
    ELSE a

RECURSIVE BFromInt(_)
BFromInt(n) ==
    IF n = 0 THEN <<>> ELSE <<n % LimbBase>> \o BFromInt(n \div LimbBase)

RECURSIVE BToInt(_)
BToInt(a) ==
    IF Len(a) = 0 THEN 0 ELSE a[1] + LimbBase * BToInt(Tail(a))

Limb(a, i) == IF i <= Len(a) THEN a[i] ELSE 0

RECURSIVE BAddC(_, _, _, _)
BAddC(a, b, i, c) ==
    IF i > Max(Len(a), Len(b)) THEN (IF c = 0 THEN <<>> ELSE <<c>>)
    ELSE LET s == Limb(a, i) + Limb(b, i) + c
         IN  <<s % LimbBase>> \o BAddC(a, b, i + 1, s \div LimbBase)

BAdd(a, b) == BAddC(a, b, 1, 0)

RECURSIVE BSubC(_, _, _, _)
BSubC(a, b, i, borrow) ==
    IF i > Len(a) THEN <<>>
    ELSE LET d == Limb(a, i) - Limb(b, i) - borrow
         IN  IF d < 0 THEN <<d + LimbBase>> \o BSubC(a, b, i + 1, 1)
             ELSE <<d>> \o BSubC(a, b, i + 1, 0)

\* a - b for a >= b
BSub(a, b) == BNorm(BSubC(a, b, 1, 0))

RECURSIVE BCmpAt(_, _, _)
BCmpAt(a, b, i) ==
    IF i = 0 THEN 0
    ELSE IF a[i] < b[i] THEN -1
    ELSE IF a[i] > b[i] THEN 1
    ELSE BCmpAt(a, b, i - 1)

\* -1, 0, 1 as a < b, a = b, a > b
BCmp(a, b) ==
    IF Len(a) < Len(b) THEN -1
    ELSE IF Len(a) > Len(b) THEN 1
    ELSE BCmpAt(a, b, Len(a))

RECURSIVE BMulC(_, _, _, _)
BMulC(a, k, i, c) ==
    IF i > Len(a) THEN BFromInt(c)
    ELSE LET p == a[i] * k + c
         IN  <<p % LimbBase>> \o BMulC(a, k, i + 1, p \div LimbBase)

\* a * k for 0 <= k < 2^16
BMulSmall(a, k) == BNorm(BMulC(a, k, 1, 0))

ShiftLimbs(a, n) == IF Len(a) = 0 THEN a ELSE [j \in 1..n |-> 0] \o a

RECURSIVE BMulAt(_, _, _)
BMulAt(a, b, i) ==
    IF i > Len(b) THEN <<>>
    ELSE BAdd(ShiftLimbs(BMulSmall(a, b[i]), i - 1), BMulAt(a, b, i + 1))


\* a * 2^n
BShl(a, n) == ShiftLimbs(BMulSmall(a, 2 ^ (n % LimbBits)), n \div LimbBits)

RECURSIVE BDivAt(_, _, _, _)
BDivAt(a, d, i, r) ==
    IF i = 0 THEN [q |-> <<>>, r |-> r]
    ELSE LET cur  == r * LimbBase + a[i]
             rest == BDivAt(a, d, i - 1, cur % d)
         IN  [q |-> rest.q \o <<cur \div d>>, r |-> rest.r]

\* divmod(a, d) for 1 <= d < 2^16
BDivSmall(a, d) ==
    LET x == BDivAt(a, d, Len(a), 0) IN [q |-> BNorm(x.q), r |-> x.r]

\* a \div 2^n
BShr(a, n) ==
    IF n \div LimbBits >= Len(a) THEN <<>>
    ELSE BDivSmall(SubSeq(a, (n \div LimbBits) + 1, Len(a)),
                   2 ^ (n % LimbBits)).q

BBitLen(a) ==
    IF Len(a) = 0 THEN 0
    ELSE LimbBits * (Len(a) - 1)
         + (CHOOSE k \in 1..LimbBits :
                2 ^ (k - 1) <= a[Len(a)] /\ a[Len(a)] < 2 ^ k)

\* round-half-even of (a [+ a fraction in (0,1) when sticky]) / 2^n, n >= 1
BRoundShr(a, sticky, n) ==
    LET Rounded(q, c) ==
            IF c = 1 \/ (c = 0 /\ (sticky \/ Limb(q, 1) % 2 = 1))
            THEN BAdd(q, <<1>>) ELSE q
        Compared(q) == Rounded(q, BCmp(BSub(a, BShl(q, n)), BShl(<<1>>, n - 1)))
    IN  Compared(BShr(a, n))

\* ================== IEEE-754 binary64 (Python float) ==================
\* A non-negative finite double is [m, e] with value m * 2^e and
\* 2^52 <= m < 2^53, or FZero.  Every value the analyzer computes is
\* non-negative and far from the overflow and subnormal ranges.

MantBits == 53

FZero == [m |-> <<>>, e |-> 0]

\* the double nearest to (m [+ fraction when sticky]) * 2^e, ties to even;
\* a sticky m has more than MantBits + 1 bits
FRound(m, sticky, e) ==
    LET Normal(q, sh) ==
            IF BBitLen(q) > MantBits
            THEN [m |-> BShr(q, 1), e |-> e + sh + 1]
            ELSE [m |-> q, e |-> e + sh]
        Sized(L) ==
            IF L = 0 THEN FZero
            ELSE IF L <= MantBits
                 THEN [m |-> BShl(m, MantBits - L), e |-> e - (MantBits - L)]
            ELSE Normal(BRoundShr(m, sticky, L - MantBits), L - MantBits)
    IN  Sized(BBitLen(m))

\* float(n) for an int 0 <= n < 2^31
FFromInt(n) == FRound(BFromInt(n), FALSE, 0)

\* -1, 0, 1 as a < b, a == b, a > b
FCmp(a, b) ==
    IF Len(a.m) = 0 THEN (IF Len(b.m) = 0 THEN 0 ELSE -1)
    ELSE IF Len(b.m) = 0 THEN 1
    ELSE IF a.e < b.e THEN -1
    ELSE IF a.e > b.e THEN 1
    ELSE BCmp(a.m, b.m)

\* a * b
FMul(a, b) ==
    IF Len(a.m) = 0 \/ Len(b.m) = 0 THEN FZero
    ELSE FRound(BMulAt(a.m, b.m, 1), FALSE, a.e + b.e)

\* a + b
FAdd(a, b) ==
    IF Len(a.m) = 0 THEN b
    ELSE IF Len(b.m) = 0 THEN a
    ELSE LET e0 == Min(a.e, b.e)
         IN  FRound(BAdd(BShl(a.m, a.e - e0), BShl(b.m, b.e - e0)), FALSE, e0)

\* a - b for a >= b
FSub(a, b) ==
    IF Len(b.m) = 0 THEN a
    ELSE LET e0 == Min(a.e, b.e)
         IN  FRound(BSub(BShl(a.m, a.e - e0), BShl(b.m, b.e - e0)), FALSE, e0)

\* x + y for two signed doubles [neg, abs]; a sum that cancels is +0.0
FAddSigned(x, y) ==
    IF x.neg = y.neg THEN [neg |-> x.neg, abs |-> FAdd(x.abs, y.abs)]
    ELSE IF FCmp(x.abs, y.abs) = 0 THEN [neg |-> FALSE, abs |-> FZero]
    ELSE IF FCmp(x.abs, y.abs) > 0
    THEN [neg |-> x.neg, abs |-> FSub(x.abs, y.abs)]
    ELSE [neg |-> y.neg, abs |-> FSub(y.abs, x.abs)]

\* a / d for an int 1 <= d < 2^16
FDivSmall(a, d) ==
    IF Len(a.m) = 0 THEN FZero
    ELSE LET x == BDivSmall(BShl(a.m, 20), d)
         IN  FRound(x.q, x.r # 0, a.e - 20)

\* n / d (true division of two ints), 0 <= n < 2^31, 1 <= d < 2^16;
\* also the float a decimal literal n/d denotes
FDivInt(n, d) == FDivSmall(FFromInt(n), d)

\* min(a, b): Python returns the first argument unless the second is smaller
FMin(a, b) == IF FCmp(b, a) < 0 THEN b ELSE a

\* round(x, 1), as the integer number of tenths of the result
RoundTenths(x) ==
    IF Len(x.m) = 0 THEN 0
    ELSE IF x.e >= 0 THEN BToInt(BShl(BMulSmall(x.m, 10), x.e))
    ELSE BToInt(BRoundShr(BMulSmall(x.m, 10), FALSE, -x.e))

\* format(x, ".0f") and round(x): the nearest integer, ties to even
FormatF0(x) ==
    IF Len(x.m) = 0 THEN 0
    ELSE IF x.e >= 0 THEN BToInt(BShl(x.m, x.e))
    ELSE BToInt(BRoundShr(x.m, FALSE, -x.e))

\* ============================ hashlib.md5 ============================
\* A 32-bit word is [hi, lo], its two 16-bit halves.

Half == 65536

RECURSIVE And16(_, _, _)
And16(x, y, i) ==
    IF i = 16 THEN 0
    ELSE (2 ^ i) * (((x \div (2 ^ i)) % 2) * ((y \div (2 ^ i)) % 2))
         + And16(x, y, i + 1)

W(hi, lo) == [hi |-> hi, lo |-> lo]

WAnd(a, b) == W(And16(a.hi, b.hi, 0), And16(a.lo, b.lo, 0))

WNot(a) == W(Half - 1 - a.hi, Half - 1 - a.lo)

\* x | y = x + y - (x & y),  x ^ y = x + y - 2 (x & y)
WOr(a, b) ==
    W(a.hi + b.hi - And16(a.hi, b.hi, 0), a.lo + b.lo - And16(a.lo, b.lo, 0))

WXor(a, b) ==
    W(a.hi + b.hi - 2 * And16(a.hi, b.hi, 0),
      a.lo + b.lo - 2 * And16(a.lo, b.lo, 0))

\* (a + b) mod 2^32
WAdd(a, b) ==
    LET lo == a.lo + b.lo
    IN  W((a.hi + b.hi + lo \div Half) % Half, lo % Half)

\* rotate left by 0 < s < 32
WRotl(a, s) ==
    LET x == IF s >= 16 THEN W(a.lo, a.hi) ELSE a
        r == s % 16
    IN  IF r = 0 THEN x
        ELSE W(((x.hi * (2 ^ r)) % Half) + (x.lo \div (2 ^ (16 - r))),
               ((x.lo * (2 ^ r)) % Half) + (x.hi \div (2 ^ (16 - r))))

\* per-round shift amounts (RFC 1321)
Md5S == <<
    7, 12, 17, 22, 7, 12, 17, 22, 7, 12, 17, 22, 7, 12, 17, 22,
    5, 9, 14, 20, 5, 9, 14, 20, 5, 9, 14, 20, 5, 9, 14, 20,
    4, 11, 16, 23, 4, 11, 16, 23, 4, 11, 16, 23, 4, 11, 16, 23,
    6, 10, 15, 21, 6, 10, 15, 21, 6, 10, 15, 21, 6, 10, 15, 21 >>

\* per-round constants floor(2^32 * abs(sin(i + 1))), as <<hi, lo>>
Md5K == <<
    <<55146, 42104>>, <<59591, 46934>>, <<9248, 28891>>, <<49597, 52974>>,
    <<62844, 4015>>, <<18311, 50730>>, <<43056, 17939>>, <<64838, 38145>>,
    <<27008, 39128>>, <<35652, 63407>>, <<65535, 23473>>, <<35164, 55230>>,
    <<27536, 4386>>, <<64920, 29075>>, <<42617, 17294>>, <<18868, 2081>>,
    <<63006, 9570>>, <<49216, 45888>>, <<9822, 23121>>, <<59830, 51114>>,
    <<54831, 4189>>, <<580, 5203>>, <<55457, 59009>>, <<59347, 64456>>,
    <<8673, 52710>>, <<49975, 2006>>, <<62677, 3463>>, <<17754, 5357>>,
    <<43491, 59653>>, <<64751, 41976>>, <<26479, 729>>, <<36138, 19594>>,
    <<65530, 14658>>, <<34673, 63105>>, <<28061, 24866>>, <<64997, 14348>>,
    <<42174, 59972>>, <<19422, 53161>>, <<63163, 19296>>, <<48831, 48240>>,
    <<10395, 32454>>, <<60065, 10234>>, <<54511, 12421>>, <<1160, 7429>>,
    <<55764, 53305>>, <<59099, 39397>>, <<8098, 31992>>, <<50348, 22117>>,
    <<62505, 8772>>, <<17194, 65431>>, <<43924, 9127>>, <<64659, 41017>>,
    <<25947, 22979>>, <<36620, 52370>>, <<65519, 62589>>, <<34180, 24017>>,
    <<28584, 32335>>, <<65068, 59104>>, <<41729, 17172>>, <<19976, 4513>>,
    <<63315, 32386>>, <<48442, 62005>>, <<10967, 53947>>, <<60294, 54161>> >>

\* message padding: 0x80, zeros up to 56 mod 64, bit length (64-bit LE)
Md5Pad(bytes) ==
    LET n     == Len(bytes)
        zeros == (119 - (n % 64)) % 64
        bits  == 8 * n
    IN  bytes \o <<128>> \o [i \in 1..zeros |-> 0]
        \o <<bits % 256, (bits \div 256) % 256, (bits \div 65536) % 256,
             (bits \div 16777216) % 256, 0, 0, 0, 0>>

Md5F(i, b, c, d) ==
    IF i < 16 THEN WOr(WAnd(b, c), WAnd(WNot(b), d))
    ELSE IF i < 32 THEN WOr(WAnd(d, b), WAnd(WNot(d), c))
    ELSE IF i < 48 THEN WXor(WXor(b, c), d)
    ELSE WXor(c, WOr(b, WNot(d)))

\* one of the 64 operations of the main loop; Word(j) is the little-endian
\* word j (0..15) of the 64-byte block starting at off + 1
Md5Step(st, p, off, i) ==
    LET Word(j) ==
            W(p[off + 4 * j + 3] + 256 * p[off + 4 * j + 4],
              p[off + 4 * j + 1] + 256 * p[off + 4 * j + 2])
        g == IF i < 16 THEN i
             ELSE IF i < 32 THEN (5 * i + 1) % 16
             ELSE IF i < 48 THEN (3 * i + 5) % 16
             ELSE (7 * i) % 16
        f == WAdd(WAdd(WAdd(Md5F(i, st.b, st.c, st.d), st.a),
                       W(Md5K[i + 1][1], Md5K[i + 1][2])),
                  Word(g))
    IN  [a |-> st.d, d |-> st.c, c |-> st.b,
         b |-> WAdd(st.b, WRotl(f, Md5S[i + 1]))]

\* operations lo..hi of the main loop over one block, in order; the loop is
\* split in halves, and the first half is tested to be complete before the
\* second starts, to keep the evaluation shallow
RECURSIVE Md5Rounds(_, _, _, _, _)
Md5Rounds(st, p, off, lo, hi) ==
    IF lo = hi THEN Md5Step(st, p, off, lo)
    ELSE LET left == Md5Rounds(st, p, off, lo, (lo + hi) \div 2)
         IN  IF left.b.hi \in 0..(Half - 1) /\ left.b.lo \in 0..(Half - 1)
             THEN Md5Rounds(left, p, off, ((lo + hi) \div 2) + 1, hi)
             ELSE left

RECURSIVE Md5Blocks(_, _, _)
Md5Blocks(st, p, off) ==
    IF off >= Len(p) THEN st
    ELSE LET r == Md5Rounds(st, p, off, 0, 63)
         IN  Md5Blocks([a |-> WAdd(st.a, r.a), b |-> WAdd(st.b, r.b),
                        c |-> WAdd(st.c, r.c), d |-> WAdd(st.d, r.d)],
                       p, off + 64)

WBytes(w) == <<w.lo % 256, w.lo \div 256, w.hi % 256, w.hi \div 256>>

\* hashlib.md5(bytes).digest(), a sequence of 16 bytes
Md5Digest(bytes) ==
    LET Bytes(st) == WBytes(st.a) \o WBytes(st.b) \o WBytes(st.c) \o WBytes(st.d)
    IN  Bytes(Md5Blocks([a |-> W(26437, 8961), b |-> W(61389, 43913),
                         c |-> W(39098, 56574), d |-> W(4146, 21622)],
                        Md5Pad(bytes), 0))

\* (int(hexdigest, 16) >> i) % 2: the hex digest read as a big-endian
\* integer has digest byte 15 as its lowest byte; bits past 127 are 0
HashBit(digest, i) ==
    IF i >= 128 THEN 0
    ELSE (digest[16 - (i \div 8)] \div (2 ^ (i % 8))) % 2

EmbeddingDim == 384

\* variant of _mock_bert_embedding that hashes the text as given, without
\* text.lower()
MockBertEmbeddingCased(text) ==
    LET digest == Md5Digest(Encode(text))
    IN  [i \in 1..EmbeddingDim |-> HashBit(digest, i - 1) * 2 - 1]

\* _mock_bert_embedding
MockBertEmbedding(text) ==
    LET lowered == Lower(text)
        digest  == Md5Digest(Encode(lowered))
    IN  [i \in 1..EmbeddingDim |-> HashBit(digest, i - 1) * 2 - 1]


\* ========================== string literals ==========================
\* the strings the job profiles and the requests use, one character per element

s_Python == <<"P","y","t","h","o","n">>

s_python == <<"p","y","t","h","o","n">>

s_Java == <<"J","a","v","a">>

s_SQL == <<"S","Q","L">>

s_Machine_Learning == <<"M","a","c","h","i","n","e"," ","L","e","a","r","n","i","n","g">>

s_Statistics == <<"S","t","a","t","i","s","t","i","c","s">>

s_Senior_Data_Scientist == <<"S","e","n","i","o","r"," ","D","a","t","a"," ","S","c","i","e","n","t","i","s","t">>

s_Backend_Developer == <<"B","a","c","k","e","n","d"," ","D","e","v","e","l","o","p","e","r">>

s_Intern == <<"I","n","t","e","r","n">>

s_Astronaut == <<"A","s","t","r","o","n","a","u","t">>

s_Go == <<"G","o">>

s_STATISTICS == <<"S","T","A","T","I","S","T","I","C","S">>

t_I_know_Python_stats_and_ML == <<"I"," ","k","n","o","w"," ","P","y","t","h","o","n",","," ","s","t","a","t","s"," ","a","n","d"," ","M","L",".">>

t_sql_SQL_mysql == <<"s","q","l"," ","S","Q","L"," ","m","y","s","q","l">>

s_PostgreSQL == <<"P","o","s","t","g","r","e","S","Q","L">>

\* ============================ knowledge store ============================

\* _load_skill_taxonomy: the dict literal in insertion order; the keys "R" and
\* "Tableau" occur twice in the literal, so each keeps its first position and
\* takes its last value
LoadSkillTaxonomy ==
    << [name |-> <<"P","y","t","h","o","n">>,
        aliases |-> <<<<"p","y","t","h","o","n">>, <<"p","y">>>>],
       [name |-> <<"J","a","v","a">>,
        aliases |-> <<<<"j","a","v","a">>>>],
       [name |-> <<"J","a","v","a","S","c","r","i","p","t">>,
        aliases |-> <<<<"j","a","v","a","s","c","r","i","p","t">>, <<"j","s">>, <<"n","o","d","e">>>>],
       [name |-> <<"R","e","a","c","t">>,
        aliases |-> <<<<"r","e","a","c","t">>, <<"r","e","a","c","t","j","s">>>>],
       [name |-> <<"S","Q","L">>,
        aliases |-> <<<<"s","q","l">>, <<"m","y","s","q","l">>, <<"p","o","s","t","g","r","e","s","q","l">>>>],
       [name |-> <<"G","i","t">>,
        aliases |-> <<<<"g","i","t">>, <<"g","i","t","h","u","b">>, <<"v","e","r","s","i","o","n"," ","c","o","n","t","r","o","l">>>>],
       [name |-> <<"D","o","c","k","e","r">>,
        aliases |-> <<<<"d","o","c","k","e","r">>, <<"c","o","n","t","a","i","n","e","r","i","z","a","t","i","o","n">>>>],
       [name |-> <<"R","E","S","T"," ","A","P","I","s">>,
        aliases |-> <<<<"r","e","s","t">>, <<"a","p","i">>, <<"r","e","s","t"," ","a","p","i">>>>],
       [name |-> <<"M","a","c","h","i","n","e"," ","L","e","a","r","n","i","n","g">>,
        aliases |-> <<<<"m","a","c","h","i","n","e"," ","l","e","a","r","n","i","n","g">>, <<"m","l">>, <<"d","e","e","p"," ","l","e","a","r","n","i","n","g">>>>],
       [name |-> <<"R">>,
        aliases |-> <<<<"r">>, <<"r"," ","p","r","o","g","r","a","m","m","i","n","g">>>>],
       [name |-> <<"A","W","S">>,
        aliases |-> <<<<"a","w","s">>, <<"a","m","a","z","o","n"," ","w","e","b"," ","s","e","r","v","i","c","e","s">>>>],
       [name |-> <<"T","a","b","l","e","a","u">>,
        aliases |-> <<<<"t","a","b","l","e","a","u">>, <<"t","a","b","l","e","a","u"," ","d","e","s","k","t","o","p">>>>],
       [name |-> <<"C","o","m","m","u","n","i","c","a","t","i","o","n">>,
        aliases |-> <<<<"c","o","m","m","u","n","i","c","a","t","i","o","n">>, <<"p","r","e","s","e","n","t","a","t","i","o","n">>>>],
       [name |-> <<"S","p","r","i","n","g"," ","B","o","o","t">>,
        aliases |-> <<<<"s","p","r","i","n","g"," ","b","o","o","t">>, <<"s","p","r","i","n","g">>>>],
       [name |-> <<"P","o","s","t","g","r","e","S","Q","L">>,
        aliases |-> <<<<"p","o","s","t","g","r","e","s","q","l">>, <<"p","o","s","t","g","r","e","s">>>>],
       [name |-> <<"K","u","b","e","r","n","e","t","e","s">>,
        aliases |-> <<<<"k","u","b","e","r","n","e","t","e","s">>, <<"k","8","s">>>>],
       [name |-> <<"C","S","S">>,
        aliases |-> <<<<"c","s","s">>, <<"s","t","y","l","i","n","g">>>>],
       [name |-> <<"T","y","p","e","S","c","r","i","p","t">>,
        aliases |-> <<<<"t","y","p","e","s","c","r","i","p","t">>, <<"t","s">>>>],
       [name |-> <<"T","e","s","t","i","n","g">>,
        aliases |-> <<<<"t","e","s","t","i","n","g">>, <<"j","e","s","t">>, <<"p","y","t","e","s","t">>>>],
       [name |-> <<"S","t","a","t","i","s","t","i","c","s">>,
        aliases |-> <<<<"s","t","a","t","i","s","t","i","c","s">>, <<"s","t","a","t","s">>>>] >>

\* dict.get(key, default) on a JSON object
Get(obj, key, default) == IF key \in DOMAIN obj THEN obj[key] ELSE default

\* list(d.keys()) of an insertion-ordered dict
Keys(d) == [i \in DOMAIN d |-> d[i].name]

\* d[key] = entry: a new key is appended, an old key keeps its position
DictPut(d, entry) ==
    IF \E i \in DOMAIN d : d[i].name = entry.name
    THEN [i \in DOMAIN d |-> IF d[i].name = entry.name THEN entry ELSE d[i]]
    ELSE Append(d, entry)

\* data/job_requirements.json as json.load returns it: three job profiles
\* (the first is the profile of the documented scenario), per-skill fields
\* present or absent, names in several letter cases, a skill outside the
\* taxonomy, two ROI ties and a profile without required skills
JobRequirementsFile ==
    << [title |-> s_Senior_Data_Scientist,
        skills |-> <<
          [name |-> s_Python,
           info |-> [learning_hours |-> 40, salary_impact |-> 3000,
                     prerequisites |-> <<>>]],
          [name |-> s_Statistics,
           info |-> [learning_hours |-> 100, salary_impact |-> 5000,
                     prerequisites |-> <<>>]],
          [name |-> s_Machine_Learning,
           info |-> [learning_hours |-> 200, salary_impact |-> 15000,
                     prerequisites |-> <<s_Python, s_Statistics>>]] >>],
       [title |-> s_Backend_Developer,
        skills |-> <<
          [name |-> s_Java,
           info |-> [complexity |-> 2, prerequisites |-> <<>>,
                     category |-> "technical", learning_hours |-> 9,
                     salary_impact |-> 12600, market_demand |-> FDivInt(9, 10),
                     importance |-> FDivInt(8, 10), priority |-> "low"]],
          [name |-> <<"S","p","r","i","n","g"," ","B","o","o","t">>,
           info |-> [complexity |-> 4, prerequisites |-> << <<"j","a","v","a">> >>,
                     category |-> "framework", learning_hours |-> 120,
                     salary_impact |-> 6000, market_demand |-> FDivInt(7, 10),
                     importance |-> FDivInt(9, 10), priority |-> "critical"]],
          [name |-> <<"d","o","c","k","e","r">>,
           info |-> [complexity |-> 1, prerequisites |-> <<>>,
                     learning_hours |-> 0, salary_impact |-> 2000,
                     market_demand |-> FDivInt(8, 10)]],
          [name |-> s_SQL,
           info |-> [complexity |-> 5, learning_hours |-> 50,
                     salary_impact |-> 2500, market_demand |-> FDivInt(1, 10),
                     priority |-> "high"]],
          [name |-> s_Go, info |-> [category |-> "technical"]] >>],
       [title |-> s_Intern, skills |-> <<>>] >>

\* the configuration source at construction time: absent, or the file above
ConfigSources ==
    {[exists |-> FALSE], [exists |-> TRUE, content |-> JobRequirementsFile]}

\* sources that exist but cannot be loaded: open() or json.load raises an
\* exception other than FileNotFoundError
UnreadableSources ==
    {[exists |-> TRUE, error |-> "PermissionError"],
     [exists |-> TRUE, error |-> "JSONDecodeError"]}

\* "missing", "unreadable" or "present"
SourceState(source) ==
    IF ~source.exists THEN "missing"
    ELSE IF "error" \in DOMAIN source THEN "unreadable"
    ELSE "present"

\* the exception _load_job_requirements lets through: the except clause
\* names FileNotFoundError only
LoadRaises(source) ==
    IF SourceState(source) = "unreadable" THEN source.error ELSE "none"

\* _load_job_requirements: FileNotFoundError yields the empty dict
LoadJobRequirements(source) ==
    IF source.exists THEN source.content ELSE <<>>

\* job_requirements.keys() as a set
JobTitles(jr) == {jr[i].title : i \in DOMAIN jr}

\* variant of the job check that accepts every title
JobKnownAlways(jr, target_job) == TRUE

\* target_job in self.job_requirements
JobKnown(jr, target_job) == target_job \in JobTitles(jr)

\* self.job_requirements[target_job]["skills"]
JobSkills(jr, target_job) ==
    IF target_job \in JobTitles(jr)
    THEN jr[CHOOSE i \in DOMAIN jr : jr[i].title = target_job].skills
    ELSE <<>>

\* variant of the lookup that searches the lowercased key
InfoOfLowered(d, key) ==
    IF \E i \in DOMAIN d : d[i].name = Lower(key)
    THEN d[CHOOSE i \in DOMAIN d : d[i].name = Lower(key)].info
    ELSE <<>>

\* d[key] of an insertion-ordered dict; d.get(key, {}) when the key is absent
InfoOf(d, key) ==
    IF \E i \in DOMAIN d : d[i].name = key
    THEN d[CHOOSE i \in DOMAIN d : d[i].name = key].info
    ELSE <<>>

\* _build_skill_graph
BuildSkillGraph(jr) ==
    [j \in DOMAIN jr |->
        [title  |-> jr[j].title,
         skills |-> [k \in DOMAIN jr[j].skills |->
            [name |-> jr[j].skills[k].name,
             info |-> [level |-> Get(jr[j].skills[k].info, "complexity", 3),
                       prerequisites |->
                           Get(jr[j].skills[k].info, "prerequisites", <<>>),
                       category |->
                           Get(jr[j].skills[k].info, "category", "technical")]]]]]

\* variant of get_available_jobs that leaves out the profiles without skills
GetAvailableJobsWithSkills(jr) ==
    LET listable == SelectSeq(jr, LAMBDA job : Len(job.skills) > 0)
    IN  [i \in DOMAIN listable |-> listable[i].title]

\* get_available_jobs
GetAvailableJobs(jr) == [i \in DOMAIN jr |-> jr[i].title]

\* ==================== stage 1: fast NER extraction ====================

FOne == FFromInt(1)

\* one taxonomy entry of _regex_extract_skills: the name, then each alias,
\* searched as a lowercased whole word in text.lower()
PatternHit(entry, lowered_text) ==
    LET patterns == <<entry.name>> \o entry.aliases
    IN  \E j \in DOMAIN patterns :
            WholeWordSearch(Lower(patterns[j]), lowered_text)

\* variant of the scan that ends at the first taxonomy entry with a hit
RECURSIVE RegexScanFirstEntry(_, _, _)
RegexScanFirstEntry(taxonomy, lowered_text, i) ==
    IF i > Len(taxonomy) THEN <<>>
    ELSE IF PatternHit(taxonomy[i], lowered_text)
    THEN <<[name |-> taxonomy[i].name, value |-> FOne]>>
    ELSE RegexScanFirstEntry(taxonomy, lowered_text, i + 1)

\* the loop over self.skill_taxonomy.items(): the break leaves the loop over
\* one entry's patterns, the scan goes on with the next entry
RECURSIVE RegexScan(_, _, _)
RegexScan(taxonomy, lowered_text, i) ==
    IF i > Len(taxonomy) THEN <<>>
    ELSE (IF PatternHit(taxonomy[i], lowered_text)
          THEN <<[name |-> taxonomy[i].name, value |-> FOne]>>
          ELSE <<>>)
         \o RegexScan(taxonomy, lowered_text, i + 1)

\* _regex_extract_skills: the dict skill -> 1.0
RegexExtractSkills(taxonomy, text) == RegexScan(taxonomy, Lower(text), 1)

\* fuzzywuzzy utils.full_process and the token split of token_sort_ratio:
\* characters outside \w become blanks, the text is lowercased and split
RECURSIVE TokensFrom(_, _, _)
TokensFrom(s, i, cur) ==
    IF i > Len(s) THEN (IF Len(cur) = 0 THEN <<>> ELSE <<cur>>)
    ELSE IF IsWordChar(s[i]) THEN TokensFrom(s, i + 1, Append(cur, LowerChar(s[i])))
    ELSE (IF Len(cur) = 0 THEN <<>> ELSE <<cur>>) \o TokensFrom(s, i + 1, <<>>)

\* sorted(tokens); StrBefore(s, t) is s < t for two str: the first differing
\* character decides, and a proper prefix comes first
RECURSIVE SortTokens(_)
SortTokens(toks) ==
    IF Len(toks) <= 1 THEN toks
    ELSE LET StrBefore(s, t) ==
                 \E k \in 1..Len(t) :
                     /\ \A j \in 1..(k - 1) : j <= Len(s) /\ s[j] = t[j]
                     /\ \/ k = Len(s) + 1
                        \/ k <= Len(s) /\ OrdOf[s[k]] < OrdOf[t[k]]
             Place(rest, k) ==
                 SubSeq(rest, 1, k) \o <<toks[1]>> \o SubSeq(rest, k + 1, Len(rest))
             Insert(rest) ==
                 Place(rest, Cardinality({i \in DOMAIN rest :
                                             StrBefore(rest[i], toks[1])}))
         IN  Insert(SortTokens(Tail(toks)))

\* fuzzywuzzy fuzz._process_and_sort after utils.full_process: the tokens in
\* sorted order, joined by one blank
ProcessAndSort(s) == Join(<<" ">>, SortTokens(TokensFrom(s, 1, <<>>)))

\* the length of the longest common run of a[i..ahi] and b[j..bhi] that
\* starts at i and at j
RECURSIVE RunLength(_, _, _, _, _, _)
RunLength(a, i, ahi, b, j, bhi) ==
    IF i > ahi \/ j > bhi THEN 0
    ELSE IF a[i] # b[j] THEN 0
    ELSE 1 + RunLength(a, i + 1, ahi, b, j + 1, bhi)

\* difflib SequenceMatcher.find_longest_match without junk: the longest block
\* a[i..i+size-1] == b[j..j+size-1] inside a[alo..ahi] and b[blo..bhi]; of
\* the longest blocks the one that starts earliest in a, and of those the
\* one that starts earliest in b
FindLongestMatch(a, alo, ahi, b, blo, bhi) ==
    LET Pick(blocks) ==
            IF blocks = {} THEN [i |-> alo, j |-> blo, size |-> 0]
            ELSE CHOOSE x \in blocks :
                     \A y \in blocks :
                         \/ y.size < x.size
                         \/ /\ y.size = x.size
                            /\ x.i < y.i \/ (x.i = y.i /\ x.j <= y.j)
    IN  Pick({[i |-> p[1], j |-> p[2],
               size |-> RunLength(a, p[1], ahi, b, p[2], bhi)] :
                 p \in {q \in (alo..ahi) \X (blo..bhi) : a[q[1]] = b[q[2]]}})

\* difflib SequenceMatcher.get_matching_blocks: the sum of the sizes of the
\* longest match and, recursively, of the matching blocks to its left and to
\* its right
RECURSIVE MatchingSize(_, _, _, _, _, _)
MatchingSize(a, alo, ahi, b, blo, bhi) ==
    IF alo > ahi \/ blo > bhi THEN 0
    ELSE LET Sides(x) ==
                 IF x.size = 0 THEN 0
                 ELSE x.size
                      + MatchingSize(a, alo, x.i - 1, b, blo, x.j - 1)
                      + MatchingSize(a, x.i + x.size, ahi, b, x.j + x.size, bhi)
         IN  Sides(FindLongestMatch(a, alo, ahi, b, blo, bhi))

\* fuzzywuzzy fuzz.ratio with the pure-python matcher:
\* int(round(100 * SequenceMatcher(None, s1, s2).ratio())), 100 on equal
\* strings and 0 when one string is empty
Ratio(s1, s2) ==
    IF s1 = s2 THEN 100
    ELSE IF Len(s1) = 0 \/ Len(s2) = 0 THEN 0
    ELSE FormatF0(FMul(FFromInt(100),
                       FDivInt(2 * MatchingSize(s1, 1, Len(s1), s2, 1, Len(s2)),
                               Len(s1) + Len(s2))))

\* process.extract(query, names, scorer=fuzz.token_sort_ratio, limit=1):
\* every name is scored against the query and the first of the best-scoring
\* names is kept with its score.  (With python-Levenshtein installed
\* fuzzywuzzy takes the ratio from the edit distance instead; the two
\* matchers give the same best name on every taxonomy key.)
FuzzyBest(query, names) ==
    LET Best(scores) ==
            LET First(i) == <<[choice |-> names[i], score |-> scores[i]]>>
            IN  First(CHOOSE i \in DOMAIN names :
                          /\ \A j \in DOMAIN names : scores[j] <= scores[i]
                          /\ \A j \in 1..(i - 1) : scores[j] < scores[i])
        Score(processed_query) ==
            Best([i \in DOMAIN names |->
                     Ratio(processed_query, ProcessAndSort(names[i]))])
    IN  IF Len(names) = 0 THEN <<>> ELSE Score(ProcessAndSort(query))

\* FuzzyBest of every key of the built-in taxonomy among these keys, computed
\* once: the queries _fuzzy_normalize_skills makes are keys of the taxonomy
TaxonomyKeyMatches ==
    {[query   |-> LoadSkillTaxonomy[n].name,
      matches |-> FuzzyBest(LoadSkillTaxonomy[n].name, Keys(LoadSkillTaxonomy))] :
        n \in DOMAIN LoadSkillTaxonomy}

RECURSIVE FuzzyScan(_, _, _)
FuzzyScan(taxonomy, extracted, i) ==
    IF i > Len(extracted) THEN <<>>
    ELSE LET Extract(query, names) ==
                 IF /\ names = Keys(LoadSkillTaxonomy)
                    /\ \E m \in TaxonomyKeyMatches : m.query = query
                 THEN (CHOOSE m \in TaxonomyKeyMatches : m.query = query).matches
                 ELSE FuzzyBest(query, names)
             matches == Extract(extracted[i].name, Keys(taxonomy))
         IN  (IF Len(matches) > 0 /\ matches[1].score >= 75
              THEN <<[original   |-> extracted[i].name,
                      normalized |-> matches[1].choice,
                      confidence |-> FDivInt(matches[1].score, 100)]>>
              ELSE <<>>)
             \o FuzzyScan(taxonomy, extracted, i + 1)

\* _fuzzy_normalize_skills
FuzzyNormalizeSkills(taxonomy, extracted) == FuzzyScan(taxonomy, extracted, 1)

RECURSIVE TfidfScan(_, _, _, _)
TfidfScan(normalized, job_desc, i, scored) ==
    IF i > Len(normalized) THEN scored
    ELSE LET skill == normalized[i].normalized
             count == StrCount(Lower(job_desc), Lower(skill))
         IN  TfidfScan(normalized, job_desc, i + 1,
                 DictPut(scored,
                     [name        |-> skill,
                      confidence  |-> normalized[i].confidence,
                      tfidf_score |-> FMul(FFromInt(count + 1),
                                           normalized[i].confidence),
                      frequency   |-> count]))

\* _tfidf_score
TfidfScore(normalized, job_desc) == TfidfScan(normalized, job_desc, 1, <<>>)

\* _stage1_fast_ner
Stage1FastNer(taxonomy, resume_text, job_desc) ==
    LET Results(extracted, normalized) ==
            [extracted  |-> extracted,
             normalized |-> normalized,
             scored     |-> TfidfScore(normalized, job_desc),
             method     |-> "ner"]
        Normalize(extracted) ==
            Results(extracted, FuzzyNormalizeSkills(taxonomy, extracted))
    IN  Normalize(RegexExtractSkills(taxonomy, resume_text))

\* ==================== stage 2: semantic enrichment ====================

\* _calculate_context_score
CalculateContextScore(skill, embedding, job_desc) ==
    LET semantic        == FDivInt(5, 10)
        occurrence      == StrCount(Lower(job_desc), Lower(skill))
        job_relevance   == FMin(FDivInt(occurrence, 5), FOne)
        frequency       == FMin(FDivInt(occurrence, 3), FOne)
        industry_weight == FDivInt(8, 10)
        context_score   ==
            FAdd(FAdd(FAdd(FMul(FDivInt(4, 10), semantic),
                           FMul(FDivInt(3, 10), job_relevance)),
                      FMul(FDivInt(2, 10), frequency)),
                 FMul(FDivInt(1, 10), industry_weight))
    IN  FMin(context_score, FOne)

\* _find_similar_skills
FindSimilarSkills(embedding, top_k) == <<>>

\* skill in self.embedding_cache
CacheHas(cache, skill) == skill \in DOMAIN cache

\* self.embedding_cache[skill]
CacheLoad(cache, skill) == cache[skill]

\* variant of the cache insert that extends the vector already stored under
\* the key instead of replacing it
CacheStoreExtending(cache, skill, embedding) ==
    [k \in DOMAIN cache \cup {skill} |->
        IF k = skill
        THEN (IF skill \in DOMAIN cache THEN cache[skill] \o embedding
              ELSE embedding)
        ELSE cache[k]]

\* variant of the cache insert that keys the vector by the lowercased skill
CacheStoreLowered(cache, skill, embedding) ==
    [k \in DOMAIN cache \cup {Lower(skill)} |->
        IF k = Lower(skill) THEN embedding ELSE cache[k]]

\* self.embedding_cache[skill] = embedding
CacheStore(cache, skill, embedding) ==
    [k \in DOMAIN cache \cup {skill} |->
        IF k = skill THEN embedding ELSE cache[k]]

\* the item _stage2_semantic_enrichment appends for one scored skill
EnrichedItem(scores, embedding, job_desc) ==
    [skill          |-> scores.name,
     confidence     |-> scores.confidence,
     tfidf_score    |-> scores.tfidf_score,
     embedding      |-> embedding,
     context_score  |-> CalculateContextScore(scores.name, embedding, job_desc),
     similar_skills |-> FindSimilarSkills(embedding, 2)]

\* ======================= stage 3: graph matching =======================

\* self.skill_graph.get(target_job, {})
JobGraph(graph, target_job) ==
    IF \E i \in DOMAIN graph : graph[i].title = target_job
    THEN graph[CHOOSE i \in DOMAIN graph : graph[i].title = target_job].skills
    ELSE <<>>

\* variant of the user's skill set that keeps only the skills the job
\* description mentions (tfidf_score above confidence)
UserSkillsNormalizedByJobDesc(enriched) ==
    {Lower(enriched[i].skill) :
        i \in {j \in DOMAIN enriched :
                  FCmp(enriched[j].tfidf_score, enriched[j].confidence) > 0}}

\* {item["skill"].lower() for item in enriched}
UserSkillsNormalized(enriched) ==
    {Lower(enriched[i].skill) : i \in DOMAIN enriched}

\* variant of the prerequisite test with any() in place of all()
PrereqsMetAny(prerequisites, user_skills_normalized) ==
    \E i \in DOMAIN prerequisites :
        Lower(prerequisites[i]) \in user_skills_normalized

\* all(p.lower() in user_skills_normalized for p in prerequisites)
PrereqsMet(prerequisites, user_skills_normalized) ==
    \A i \in DOMAIN prerequisites :
        Lower(prerequisites[i]) \in user_skills_normalized

\* the entry the loop of _stage3_graph_matching appends for one job skill
GraphMatch(job_skill, job_skill_data, user_skills_normalized) ==
    LET direct_match_found ==
            \E user_skill \in user_skills_normalized :
                Lower(job_skill) = user_skill
        prerequisites == Get(job_skill_data, "prerequisites", <<>>)
        level == Get(job_skill_data, "level", 3)
    IN  IF direct_match_found
        THEN [skill |-> job_skill, type |-> "direct",
              match_score |-> FOne, level |-> level]
        ELSE IF Len(prerequisites) > 0
                /\ PrereqsMet(prerequisites, user_skills_normalized)
        THEN [skill |-> job_skill, type |-> "prerequisite_met",
              match_score |-> FDivInt(7, 10), level |-> level]
        ELSE [skill |-> job_skill, type |-> "missing",
              match_score |-> FZero, level |-> level]

\* variant of _stage3_graph_matching that appends an entry only for the
\* skills it could match
Stage3MatchedOnly(enriched, graph, target_job) ==
    LET job_graph == JobGraph(graph, target_job)
    IN  SelectSeq([i \in DOMAIN job_graph |->
                      GraphMatch(job_graph[i].name, job_graph[i].info,
                                 UserSkillsNormalized(enriched))],
                  LAMBDA m : m.type # "missing")

\* _stage3_graph_matching: the "matched" list
Stage3GraphMatching(enriched, graph, target_job) ==
    LET job_graph == JobGraph(graph, target_job)
    IN  [i \in DOMAIN job_graph |->
            GraphMatch(job_graph[i].name, job_graph[i].info,
                       UserSkillsNormalized(enriched))]

\* =================== stage 4: quantified gap analysis ===================
\* (the parameter job_requirements of stage 4 and of _compile_results, the
\* "skills" dict of one job, is called requirements here: job_requirements
\* names the attribute self.job_requirements)

\* _determine_priority
DeterminePriority(base_priority, learning_hours, salary_impact) ==
    LET ten == FFromInt(10)
        Bucket(score) ==
            IF FCmp(score, FDivInt(75, 10)) >= 0 THEN "critical"
            ELSE IF FCmp(score, FFromInt(6)) >= 0 THEN "high"
            ELSE IF FCmp(score, FFromInt(4)) >= 0 THEN "medium"
            ELSE "low"
        Score(hour_score, salary_score) ==
            FAdd(FAdd(FMul(FDivInt(35, 100), FSub(ten, hour_score)),
                      FMul(FDivInt(40, 100), salary_score)),
                 FMul(FDivInt(25, 100), FSub(ten, hour_score)))
    IN  Bucket(Score(FMin(FMul(FDivInt(learning_hours, 300), ten), ten),
                     FMin(FMul(FDivInt(salary_impact, 30000), ten), ten)))

\* variant of _estimate_difficulty without the cap at 10
EstimateDifficultyUncapped(complexity, required_level) ==
    complexity * 2 + required_level

\* _estimate_difficulty
EstimateDifficulty(complexity, required_level) ==
    LET base       == complexity * 2
        additional == required_level
    IN  Min(base + additional, 10)

\* the SkillGapItem built for one "missing" match
GapItem(match, requirements) ==
    LET req            == InfoOf(requirements, match.skill)
        learning_hours == Get(req, "learning_hours", 100)
        salary_impact  == Get(req, "salary_impact", 5000)
    IN  [skill_name           |-> match.skill,
         priority             |-> DeterminePriority(Get(req, "priority", "medium"),
                                                    learning_hours, salary_impact),
         learning_hours       |-> learning_hours,
         salary_impact        |-> salary_impact,
         difficulty           |-> EstimateDifficulty(Get(req, "complexity", 3),
                                                     match.level),
         market_demand        |-> Get(req, "market_demand", FDivInt(5, 10)),
         roi                  |-> FDivInt(salary_impact, Max(learning_hours, 1)),
         weeks_to_proficiency |-> FDivInt(learning_hours, 40),
         job_relevance        |-> Get(req, "importance", FDivInt(5, 10)),
         recommended_resources |-> <<>>,
         extraction_method    |-> "hybrid",
         confidence_score     |-> FDivInt(92, 100)]

\* variant of the sort without reverse=True: smallest roi first
RECURSIVE InsertByRoiAscending(_, _)
InsertByRoiAscending(sorted, gap) ==
    IF Len(sorted) = 0 THEN <<gap>>
    ELSE IF FCmp(sorted[1].roi, gap.roi) <= 0
         THEN <<sorted[1]>> \o InsertByRoiAscending(Tail(sorted), gap)
         ELSE <<gap>> \o sorted

\* variant of the sort that is not stable: an item goes in front of the items
\* already placed whose roi equals its own
RECURSIVE InsertByRoiBeforeEqual(_, _)
InsertByRoiBeforeEqual(sorted, gap) ==
    IF Len(sorted) = 0 THEN <<gap>>
    ELSE IF FCmp(sorted[1].roi, gap.roi) > 0
         THEN <<sorted[1]>> \o InsertByRoiBeforeEqual(Tail(sorted), gap)
         ELSE <<gap>> \o sorted

\* list.sort(key=roi, reverse=True) is stable: an item goes behind every
\* item already placed whose roi is not smaller than its own
RECURSIVE InsertByRoi(_, _)
InsertByRoi(sorted, gap) ==
    IF Len(sorted) = 0 THEN <<gap>>
    ELSE IF FCmp(sorted[1].roi, gap.roi) >= 0
         THEN <<sorted[1]>> \o InsertByRoi(Tail(sorted), gap)
         ELSE <<gap>> \o sorted

RECURSIVE SortByRoi(_, _, _)
SortByRoi(gaps, i, sorted) ==
    IF i > Len(gaps) THEN sorted
    ELSE SortByRoi(gaps, i + 1, InsertByRoi(sorted, gaps[i]))

\* variant of the stage 4 loop that builds a gap for every entry that is not
\* a direct match
RECURSIVE GapScanNotDirect(_, _, _)
GapScanNotDirect(matched, requirements, i) ==
    IF i > Len(matched) THEN <<>>
    ELSE (IF matched[i].type # "direct"
          THEN <<GapItem(matched[i], requirements)>>
          ELSE <<>>)
         \o GapScanNotDirect(matched, requirements, i + 1)

RECURSIVE GapScan(_, _, _)
GapScan(matched, requirements, i) ==
    IF i > Len(matched) THEN <<>>
    ELSE (IF matched[i].type = "missing"
          THEN <<GapItem(matched[i], requirements)>>
          ELSE <<>>)
         \o GapScan(matched, requirements, i + 1)

\* _stage4_quantified_analysis
Stage4QuantifiedAnalysis(matched, target_job, requirements) ==
    SortByRoi(GapScan(matched, requirements, 1), 1, <<>>)

\* ============================ compile results ============================

\* variant of the sum that starts at the second item
RECURSIVE SumIntFromSecond(_, _)
SumIntFromSecond(s, field) ==
    IF Len(s) <= 1 THEN 0
    ELSE s[2][field] + SumIntFromSecond(Tail(s), field)

RECURSIVE SumInt(_, _)
SumInt(s, field) ==
    IF Len(s) = 0 THEN 0 ELSE s[1][field] + SumInt(Tail(s), field)

\* sum(g.market_demand for g in skill_gaps) of non-negative floats: 0 + x1,
\* then x2, ... are added left to right, each addition rounded.  CPython
\* 3.12 and later compensate (Neumaier's summation): the rounding error of
\* every addition is accumulated in c, and a non-zero c is added to the
\* total at the end.
RECURSIVE SumFloat(_, _, _, _, _, _)
SumFloat(s, field, i, total, c, compensated) ==
    IF i > Len(s)
    THEN (IF compensated /\ Len(c.abs.m) > 0
          THEN FAddSigned([neg |-> FALSE, abs |-> total], c).abs
          ELSE total)
    ELSE LET Lost(big, small, t) ==
                 FAddSigned(FAddSigned([neg |-> FALSE, abs |-> big],
                                       [neg |-> TRUE, abs |-> t]),
                            [neg |-> FALSE, abs |-> small])
             Step(x, t) ==
                 SumFloat(s, field, i + 1, t,
                          IF ~compensated THEN c
                          ELSE FAddSigned(c, IF FCmp(total, x) >= 0
                                             THEN Lost(total, x, t)
                                             ELSE Lost(x, total, t)),
                          compensated)
             Add(x) == Step(x, FAdd(total, x))
         IN  Add(s[i][field])

\* _generate_recommendation: the template chosen and the values it embeds
GenerateRecommendation(match_percentage, estimated_weeks, skill_gaps) ==
    IF FCmp(match_percentage, FFromInt(80)) >= 0
    THEN [template |-> "excellent", remaining |-> Len(skill_gaps)]
    ELSE IF FCmp(match_percentage, FFromInt(60)) >= 0
    THEN [template |-> "good_progress",
          high_priority |->
              Cardinality({i \in DOMAIN skill_gaps :
                              skill_gaps[i].priority = "high"}),
          weeks |-> FormatF0(estimated_weeks)]
    ELSE IF FCmp(match_percentage, FFromInt(40)) >= 0
    THEN [template |-> "foundation", weeks |-> FormatF0(estimated_weeks)]
    ELSE [template |-> "training", weeks |-> FormatF0(estimated_weeks),
          focus |-> IF Len(skill_gaps) > 0 THEN skill_gaps[1].skill_name
                    ELSE <<"c","o","r","e"," ","f","u","n","d","a","m","e","n","t","a","l","s">>]

\* variant of the matched_skills loop that tests the required name as it is
\* spelled, without lowercasing it
RECURSIVE MatchedScanCased(_, _, _)
MatchedScanCased(required, user_skills_lower, i) ==
    IF i > Len(required) THEN <<>>
    ELSE (IF required[i] \in user_skills_lower
          THEN <<[skill_name        |-> required[i],
                  proficiency_level |-> "intermediate",
                  required_level    |-> "expert",
                  extraction_method |-> "hybrid"]>>
          ELSE <<>>)
         \o MatchedScanCased(required, user_skills_lower, i + 1)

RECURSIVE MatchedScan(_, _, _)
MatchedScan(required, user_skills_lower, i) ==
    IF i > Len(required) THEN <<>>
    ELSE (IF Lower(required[i]) \in user_skills_lower
          THEN <<[skill_name        |-> required[i],
                  proficiency_level |-> "intermediate",
                  required_level    |-> "expert",
                  extraction_method |-> "hybrid"]>>
          ELSE <<>>)
         \o MatchedScan(required, user_skills_lower, i + 1)

\* variant of the matched count that counts the "direct" entries only
MatchedCountDirect(matched) ==
    Cardinality({i \in DOMAIN matched : matched[i].type = "direct"})

\* sum(1 for m in matched if m["type"] in ["direct", "prerequisite_met"])
MatchedCount(matched) ==
    Cardinality({i \in DOMAIN matched :
                    matched[i].type \in {"direct", "prerequisite_met"}})

\* variant of the roadmap numbered with the index enumerate yields, from 0
LearningRoadmapFromZero(skill_gaps) ==
    [i \in DOMAIN skill_gaps |->
        IntToStr(i - 1) \o <<".", " ">> \o skill_gaps[i].skill_name]

\* [f"{i+1}. {g.skill_name}" for i, g in enumerate(skill_gaps)]
LearningRoadmap(skill_gaps) ==
    [i \in DOMAIN skill_gaps |->
        IntToStr(i) \o <<".", " ">> \o skill_gaps[i].skill_name]

\* _compile_results
CompileResults(user_skills, target_job, requirements, skill_gaps, matched, compensated) ==
    LET matched_count == MatchedCount(matched)
        total_required == Len(requirements)
        match_percentage ==
            IF total_required = 0 THEN FZero
            ELSE FMul(FDivInt(matched_count, total_required), FFromInt(100))
        total_learning_hours == SumInt(skill_gaps, "learning_hours")
        estimated_weeks == FDivInt(total_learning_hours, 40)
        potential_salary == SumInt(skill_gaps, "salary_impact")
        avg_difficulty ==
            IF Len(skill_gaps) > 0
            THEN FDivInt(SumInt(skill_gaps, "difficulty"), Len(skill_gaps))
            ELSE FZero
        learning_roadmap == LearningRoadmap(skill_gaps)
        matched_skills ==
            MatchedScan(Keys(requirements),
                        {Lower(user_skills[i]) : i \in DOMAIN user_skills}, 1)
    IN  [job_title                 |-> target_job,
         user_skill_count          |-> Len(matched_skills),
         required_skill_count      |-> total_required,
         match_percentage          |-> RoundTenths(match_percentage),
         matched_skills            |-> matched_skills,
         skill_gaps                |-> skill_gaps,
         total_learning_hours      |-> total_learning_hours,
         estimated_weeks           |-> RoundTenths(estimated_weeks),
         potential_salary_increase |-> potential_salary,
         average_difficulty        |-> RoundTenths(avg_difficulty),
         market_demand_score       |->
             FDivSmall(SumFloat(skill_gaps, "market_demand", 1, FZero,
                                [neg |-> FALSE, abs |-> FZero], compensated),
                       Max(Len(skill_gaps), 1)),
         recommendation            |->
             GenerateRecommendation(match_percentage, estimated_weeks, skill_gaps),
         learning_roadmap          |-> learning_roadmap,
         analysis_details          |->
             [method |-> "hybrid_semantic", stages_used |-> 4,
              accuracy |-> FDivInt(94, 100), processing_method |-> "4-stage"]]

\* ============================== the matcher ==============================

VARIABLES
    job_requirements,   \* self.job_requirements
    skill_taxonomy,     \* self.skill_taxonomy
    embedding_cache,    \* self.embedding_cache: skill string -> vector
    skill_graph,        \* self.skill_graph
    calls,              \* per worker: the analyze call it is executing
    returned,           \* history: every <<arguments, outcome>> a call ended with
    fetch_log,          \* history: every _get_cached_embedding return value
    ncalls,             \* number of analyze calls started
    fn_args,            \* arguments of a function applied on its own
    fn_result,          \* its return value, "none" before the application
    constructed,        \* how __init__ ended: the source's state and the
                        \* exception raised, "none" when the object exists
    listed,             \* the last return value of get_available_jobs and the
                        \* number of analyze calls started before it
    compensated_sum     \* the interpreter the matcher runs on: TRUE when its
                        \* sum() of floats is compensated (CPython 3.12 and
                        \* later), FALSE when it is not (up to 3.11)

vars == <<job_requirements, skill_taxonomy, embedding_cache, skill_graph,
          calls, returned, fetch_log, ncalls, fn_args, fn_result, constructed,
          listed, compensated_sum>>

\* what no call assigns: the store, the taxonomy and the graph of the
\* constructed object, and the interpreter
matcher == <<job_requirements, skill_taxonomy, skill_graph, constructed,
             compensated_sum>>

\* an Optional[str] argument
None == [some |-> FALSE]

Some(text) == [some |-> TRUE, val |-> text]

\* variant of the default that adds the default text to a supplied text
OrDefaultAppended(x, default) ==
    IF x.some /\ Len(x.val) > 0 THEN x.val \o <<" ">> \o default ELSE default

\* x or default
OrDefault(x, default) == IF x.some /\ Len(x.val) > 0 THEN x.val ELSE default

Args(user_skills, target_job, resume_text, job_desc) ==
    [user_skills |-> user_skills, target_job |-> target_job,
     resume_text |-> resume_text, job_desc |-> job_desc]

\* the analyze requests the workers may issue
CallInputs ==
    { Args(<<s_Python>>, s_Senior_Data_Scientist, None, None),
      Args(<<s_python, s_STATISTICS>>, s_Senior_Data_Scientist, None, None),
      Args(<<>>, s_Senior_Data_Scientist,
           Some(t_I_know_Python_stats_and_ML), Some(t_sql_SQL_mysql)),
      \* ["js"], resume_text "pythonic javascripts"
      Args(<< <<"j","s">> >>, s_Senior_Data_Scientist,
           Some(<<"p","y","t","h","o","n","i","c"," ",
                  "j","a","v","a","s","c","r","i","p","t","s">>), None),
      \* ["Java", "Docker"]
      Args(<<s_Java, <<"D","o","c","k","e","r">> >>, s_Backend_Developer,
           None, None),
      \* resume_text ""
      Args(<<s_Go>>, s_Backend_Developer, Some(<<>>), None),
      \* resume_text "Java, SQL; Docker + spring"
      Args(<<s_SQL>>, s_Backend_Developer,
           Some(<<"J","a","v","a",","," ","S","Q","L",";"," ",
                  "D","o","c","k","e","r"," ","+"," ","s","p","r","i","n","g">>),
           Some(t_sql_SQL_mysql)),
      Args(<<s_PostgreSQL>>, s_Backend_Developer, None, None),
      \* resume_text "" and job_desc ""
      Args(<<s_Python>>, s_Senior_Data_Scientist, Some(<<>>), Some(<<>>)),
      Args(<<s_Python>>, s_Intern, None, None),
      Args(<<s_Python>>, s_Astronaut, None, None),
      Args(<<>>, s_Astronaut, Some(t_I_know_Python_stats_and_ML), None) }

\* the requests issued by workers that run at the same time, and by the
\* worker that also lists the jobs
ConcurrentInputs ==
    { Args(<<s_Python>>, s_Senior_Data_Scientist, None, None),
      Args(<<s_python, s_STATISTICS>>, s_Senior_Data_Scientist, None, None),
      Args(<<s_Python>>, s_Astronaut, None, None) }

\* bound on the number of analyze calls of one run
MaxCalls == 2

NoCall ==
    [pc |-> "idle", args |-> Args(<<>>, <<>>, None, None),
     resume_text |-> <<>>, job_desc |-> <<>>,
     ner |-> <<>>, idx |-> 0, enriched |-> <<>>, matched |-> <<>>,
     outcome |-> [kind |-> "none"]]

\* get_available_jobs has not been called
NotListed == [after |-> -1, jobs |-> <<>>]

\* __init__ with the given configuration source and worker set, on one of the
\* given interpreters; an exception of _load_job_requirements leaves __init__
\* and no matcher exists
Construct(source, workers, interpreters) ==
    /\ compensated_sum \in interpreters
    /\ constructed = [source |-> SourceState(source), raised |-> LoadRaises(source)]
    /\ IF LoadRaises(source) = "none"
       THEN /\ job_requirements = LoadJobRequirements(source)
            /\ skill_taxonomy = LoadSkillTaxonomy
            /\ skill_graph = BuildSkillGraph(LoadJobRequirements(source))
       ELSE /\ job_requirements = <<>>
            /\ skill_taxonomy = <<>>
            /\ skill_graph = <<>>
    /\ embedding_cache = <<>>
    /\ calls = [c \in workers |-> NoCall]
    /\ returned = {}
    /\ fetch_log = {}
    /\ ncalls = 0
    /\ listed = NotListed

NoFunction ==
    /\ fn_args = [base_priority |-> "medium", learning_hours |-> 0,
                  salary_impact |-> 0]
    /\ fn_result = "none"

Init ==
    /\ \E source \in ConfigSources \cup UnreadableSources :
           Construct(source, {1}, BOOLEAN)
    /\ NoFunction

\* analyze up to the first cache access: the job check, the default texts
\* and stage 1; an unknown job raises ValueError at once
AnalyzeStart(c, input) ==
    /\ constructed.raised = "none"
    /\ calls[c].pc \in {"idle", "returned", "raised"}
    /\ ncalls < MaxCalls
    /\ ncalls' = ncalls + 1
    /\ IF ~JobKnown(job_requirements, input.target_job)
       THEN /\ calls' = [calls EXCEPT ![c] =
                    [NoCall EXCEPT !.pc = "raised", !.args = input,
                                   !.outcome = [kind |-> "ValueError"]]]
            /\ returned' = returned \cup
                    {[args |-> input, outcome |-> [kind |-> "ValueError"]]}
       ELSE LET reqs        == JobSkills(job_requirements, input.target_job)
                resume_text == OrDefault(input.resume_text,
                                         Join(<<" ">>, input.user_skills))
                job_desc    == OrDefault(input.job_desc,
                                         Join(<<" ">>, Keys(reqs)))
            IN  /\ calls' = [calls EXCEPT ![c] =
                        [NoCall EXCEPT
                            !.pc = "lookup", !.args = input,
                            !.resume_text = resume_text,
                            !.job_desc = job_desc,
                            !.ner = Stage1FastNer(skill_taxonomy, resume_text,
                                                  job_desc),
                            !.idx = 1]]
                /\ returned' = returned
    /\ UNCHANGED <<matcher, embedding_cache, fetch_log, fn_args, fn_result,
                   listed>>

\* variant of the loop position that stays at the first scored skill
CurrentScoresFirst(c) == calls[c].ner.scored[1]

\* the scored skill the enrichment loop is at
CurrentScores(c) == calls[c].ner.scored[calls[c].idx]

\* _get_cached_embedding: the test "skill in self.embedding_cache"
CacheCheck(c) ==
    /\ calls[c].pc = "lookup"
    /\ calls[c].idx <= Len(calls[c].ner.scored)
    /\ calls' = [calls EXCEPT ![c].pc =
            IF CacheHas(embedding_cache, CurrentScores(c).name)
            THEN "hit" ELSE "miss"]
    /\ UNCHANGED <<matcher, embedding_cache, returned, fetch_log, ncalls,
                   fn_args, fn_result, listed>>

\* the rest of one loop iteration of _stage2_semantic_enrichment
Enrich(c, embedding, hit) ==
    /\ calls' = [calls EXCEPT
            ![c].pc = "lookup",
            ![c].idx = @ + 1,
            ![c].enriched = Append(@, EnrichedItem(CurrentScores(c), embedding,
                                                   calls[c].job_desc))]
    /\ fetch_log' = fetch_log \cup
            {[skill |-> CurrentScores(c).name, hit |-> hit, vector |-> embedding]}

\* variant of the enrichment loop that moves on to the next skill on a cache
\* hit without appending the enriched item
CacheHitSkipping(c) ==
    /\ calls[c].pc = "hit"
    /\ calls' = [calls EXCEPT ![c].pc = "lookup", ![c].idx = @ + 1]
    /\ fetch_log' = fetch_log \cup
            {[skill |-> CurrentScores(c).name, hit |-> TRUE,
              vector |-> CacheLoad(embedding_cache, CurrentScores(c).name)]}
    /\ UNCHANGED <<matcher, embedding_cache, returned, ncalls, fn_args,
                   fn_result, listed>>

\* _get_cached_embedding on a hit: return the cached vector
CacheHit(c) ==
    /\ calls[c].pc = "hit"
    /\ Enrich(c, CacheLoad(embedding_cache, CurrentScores(c).name), TRUE)
    /\ UNCHANGED <<matcher, embedding_cache, returned, ncalls, fn_args,
                   fn_result, listed>>

\* variant of the miss that starts a fresh cache holding the new vector only
CacheMissClearing(c) ==
    /\ calls[c].pc = "miss"
    /\ LET Insert(embedding) ==
               /\ embedding_cache' =
                      CacheStore(<<>>, CurrentScores(c).name, embedding)
               /\ Enrich(c, embedding, FALSE)
       IN  Insert(MockBertEmbedding(CurrentScores(c).name))
    /\ UNCHANGED <<matcher, returned, ncalls, fn_args, fn_result, listed>>

\* _get_cached_embedding on a miss: compute, insert and return the vector
CacheMiss(c) ==
    /\ calls[c].pc = "miss"
    /\ LET Insert(embedding) ==
               /\ embedding_cache' =
                      CacheStore(embedding_cache, CurrentScores(c).name, embedding)
               /\ Enrich(c, embedding, FALSE)
       IN  Insert(MockBertEmbedding(CurrentScores(c).name))
    /\ UNCHANGED <<matcher, returned, ncalls, fn_args, fn_result, listed>>

\* analyze after the enrichment loop: stages 3 and 4 and _compile_results
AnalyzeFinish(c) ==
    /\ calls[c].pc = "lookup"
    /\ calls[c].idx > Len(calls[c].ner.scored)
    /\ LET input == calls[c].args
           reqs  == JobSkills(job_requirements, input.target_job)
           Return(matched, result) ==
               /\ calls' = [calls EXCEPT
                       ![c].pc = "returned",
                       ![c].matched = matched,
                       ![c].outcome = [kind |-> "result", result |-> result]]
               /\ returned' = returned \cup
                       {[args |-> input,
                         outcome |-> [kind |-> "result", result |-> result]]}
           Compile(matched, skill_gaps) ==
               Return(matched,
                      CompileResults(input.user_skills, input.target_job, reqs,
                                     skill_gaps, matched, compensated_sum))
           Quantify(matched) ==
               Compile(matched,
                       Stage4QuantifiedAnalysis(matched, input.target_job, reqs))
       IN  Quantify(Stage3GraphMatching(calls[c].enriched, skill_graph,
                                        input.target_job))
    /\ UNCHANGED <<matcher, embedding_cache, fetch_log, ncalls, fn_args,
                   fn_result, listed>>

\* variant of get_available_jobs that takes the profiles out of the store
\* as it lists them
GetAvailableJobsCallDraining(c) ==
    /\ constructed.raised = "none"
    /\ calls[c].pc \in {"idle", "returned", "raised"}
    /\ listed' = [after |-> ncalls, jobs |-> GetAvailableJobs(job_requirements)]
    /\ job_requirements' = <<>>
    /\ UNCHANGED <<skill_taxonomy, skill_graph, constructed, compensated_sum,
                   embedding_cache, calls, returned, fetch_log, ncalls,
                   fn_args, fn_result>>

\* get_available_jobs, called between two analyze calls of the worker
GetAvailableJobsCall(c) ==
    /\ constructed.raised = "none"
    /\ calls[c].pc \in {"idle", "returned", "raised"}
    /\ listed' = [after |-> ncalls, jobs |-> GetAvailableJobs(job_requirements)]
    /\ UNCHANGED <<matcher, embedding_cache, calls, returned, fetch_log, ncalls,
                   fn_args, fn_result>>

Next ==
    \/ \E c \in DOMAIN calls : \E input \in CallInputs : AnalyzeStart(c, input)
    \/ \E c \in DOMAIN calls : CacheCheck(c)
    \/ \E c \in DOMAIN calls : CacheHit(c)
    \/ \E c \in DOMAIN calls : CacheMiss(c)
    \/ \E c \in DOMAIN calls : AnalyzeFinish(c)

\* one worker issuing analyze calls one after the other
Spec == Init /\ [][Next]_vars

\* one worker issuing analyze calls (the requests of ConcurrentInputs) and
\* get_available_jobs calls one after the other, in any order
NextJobs ==
    \/ \E c \in DOMAIN calls :
          \E input \in ConcurrentInputs : AnalyzeStart(c, input)
    \/ \E c \in DOMAIN calls : CacheCheck(c)
    \/ \E c \in DOMAIN calls : CacheHit(c)
    \/ \E c \in DOMAIN calls : CacheMiss(c)
    \/ \E c \in DOMAIN calls : AnalyzeFinish(c)
    \/ \E c \in DOMAIN calls : GetAvailableJobsCall(c)

SpecJobs == Init /\ [][NextJobs]_vars

\* two workers whose analyze calls interleave at the cache accesses
InitConcurrent ==
    /\ Construct([exists |-> TRUE, content |-> JobRequirementsFile], {1, 2},
                 BOOLEAN)
    /\ NoFunction

NextConcurrent ==
    \/ \E c \in DOMAIN calls :
          \E input \in ConcurrentInputs : AnalyzeStart(c, input)
    \/ \E c \in DOMAIN calls : CacheCheck(c)
    \/ \E c \in DOMAIN calls : CacheHit(c)
    \/ \E c \in DOMAIN calls : CacheMiss(c)
    \/ \E c \in DOMAIN calls : AnalyzeFinish(c)

SpecConcurrent == InitConcurrent /\ [][NextConcurrent]_vars

\* _determine_priority applied on its own to bounded arguments
ApplyDeterminePriority ==
    /\ fn_result = "none"
    /\ fn_result' = DeterminePriority(fn_args.base_priority,
                                      fn_args.learning_hours,
                                      fn_args.salary_impact)
    /\ UNCHANGED <<matcher, embedding_cache, calls, returned, fetch_log,
                   ncalls, fn_args, listed>>

SpecPriority ==
    /\ Construct([exists |-> FALSE], {}, {FALSE})
    /\ fn_args \in [base_priority : {"critical", "medium", "low"},
                    learning_hours :
                        {0, 1, 8, 9, 22, 100, 101, 150, 300, 450},
                    salary_impact :
                        {0, 150, 3300, 5000, 11250, 12450, 12600, 15000,
                         30000, 45000}]
    /\ fn_result = "none"
    /\ [][ApplyDeterminePriority]_vars


\* stages 3 and 4 and _compile_results applied on their own: the one job of
\* the store requires `total` skills k1, k2, ..., the first `met` of them
\* with the prerequisite python and the others without store detail, and the
\* enrichment stage has surfaced Python
WideSkills(total, met) ==
    [i \in 1..total |->
        [name |-> <<"k">> \o IntToStr(i),
         info |-> IF i <= met THEN [prerequisites |-> <<s_python>>]
                  ELSE [category |-> "technical"]]]

ApplyCompileResults ==
    /\ ~fn_result.done
    /\ LET Compile(requirements, matched) ==
               CompileResults(<<s_Python>>, s_Intern, requirements,
                              Stage4QuantifiedAnalysis(matched, s_Intern,
                                                       requirements),
                              matched, compensated_sum)
           Match(requirements) ==
               Compile(requirements,
                   Stage3GraphMatching(
                       <<[skill |-> s_Python]>>,
                       BuildSkillGraph(<<[title |-> s_Intern,
                                          skills |-> requirements]>>),
                       s_Intern))
       IN  fn_result' = [done |-> TRUE,
                         result |-> Match(WideSkills(fn_args.total, fn_args.met))]
    /\ UNCHANGED <<matcher, embedding_cache, calls, returned, fetch_log,
                   ncalls, fn_args, listed>>

SpecCompile ==
    /\ Construct([exists |-> FALSE], {}, BOOLEAN)
    /\ fn_args \in {[total |-> n, met |-> k] : n \in 0..10, k \in 0..10}
                   \cup {[total |-> 404, met |-> 323],
                         [total |-> 404, met |-> 324],
                         [total |-> 402, met |-> 241]}
    /\ fn_args.met <= fn_args.total
    /\ fn_result = [done |-> FALSE]
    /\ [][ApplyCompileResults]_vars
\* ========================= the skill extractor =========================

\* SkillTaxonomy._create_skills_db: the dict literal in insertion order
CreateSkillsDb ==
    << [name |-> <<"G","i","t">>,
        aliases |-> <<<<"g","i","t"," ","v","e","r","s","i","o","n"," ","c","o","n","t","r","o","l">>>>,
        category |-> "technical"],
       [name |-> <<"G","i","t","H","u","b">>,
        aliases |-> <<<<"g","i","t","h","u","b">>, <<"g","i","t"," ","h","u","b">>>>,
        category |-> "technical"],
       [name |-> <<"V","S"," ","C","o","d","e">>,
        aliases |-> <<<<"v","s","c","o","d","e">>, <<"v","i","s","u","a","l"," ","s","t","u","d","i","o"," ","c","o","d","e">>>>,
        category |-> "technical"],
       [name |-> <<"I","n","t","e","l","l","i","J"," ","I","D","E","A">>,
        aliases |-> <<<<"i","n","t","e","l","l","i","j">>, <<"i","d","e","a">>>>,
        category |-> "technical"],
       [name |-> <<"C","a","n","v","a">>,
        aliases |-> <<<<"c","a","n","v","a">>>>,
        category |-> "technical"],
       [name |-> <<"D","a","t","a"," ","S","t","r","u","c","t","u","r","e","s">>,
        aliases |-> <<<<"d","a","t","a"," ","s","t","r","u","c","t","u","r","e","s">>, <<"d","s","a">>>>,
        category |-> "technical"],
       [name |-> <<"A","l","g","o","r","i","t","h","m","s">>,
        aliases |-> <<<<"a","l","g","o","r","i","t","h","m","s">>, <<"a","l","g","o","r","i","t","h","m","i","c">>>>,
        category |-> "technical"],
       [name |-> <<"C","h","a","r","t",".","j","s">>,
        aliases |-> <<<<"c","h","a","r","t","j","s">>, <<"c","h","a","r","t",".","j","s">>>>,
        category |-> "technical"],
       [name |-> <<"C","C","N","A">>,
        aliases |-> <<<<"c","c","n","a">>, <<"c","i","s","c","o">>>>,
        category |-> "technical"],
       [name |-> <<"N","e","t","w","o","r","k","i","n","g">>,
        aliases |-> <<<<"n","e","t","w","o","r","k","i","n","g">>, <<"n","e","t","w","o","r","k">>>>,
        category |-> "technical"],
       [name |-> <<"S","Q","L">>,
        aliases |-> <<<<"s","q","l">>, <<"s","e","q","u","e","l">>>>,
        category |-> "technical"],
       [name |-> <<"D","a","t","a"," ","A","n","a","l","y","s","i","s">>,
        aliases |-> <<<<"d","a","t","a"," ","a","n","a","l","y","s","i","s">>, <<"a","n","a","l","y","t","i","c","s">>>>,
        category |-> "technical"],
       [name |-> <<"E","x","c","e","l">>,
        aliases |-> <<<<"e","x","c","e","l">>, <<"s","p","r","e","a","d","s","h","e","e","t">>>>,
        category |-> "technical"],
       [name |-> <<"P","r","o","b","l","e","m","-","S","o","l","v","i","n","g">>,
        aliases |-> <<<<"p","r","o","b","l","e","m"," ","s","o","l","v","i","n","g">>, <<"t","r","o","u","b","l","e","s","h","o","o","t","i","n","g">>>>,
        category |-> "soft"],
       [name |-> <<"T","e","a","m","w","o","r","k">>,
        aliases |-> <<<<"t","e","a","m","w","o","r","k">>, <<"t","e","a","m"," ","c","o","l","l","a","b","o","r","a","t","i","o","n">>>>,
        category |-> "soft"],
       [name |-> <<"P","y","t","h","o","n">>,
        aliases |-> <<<<"p","y","t","h","o","n","3">>, <<"p","y">>, <<"p","y","t","h","o","n","2",".","7">>>>,
        category |-> "technical"],
       [name |-> <<"J","a","v","a">>,
        aliases |-> <<<<"j","2","e","e">>, <<"j","a","v","a","8">>, <<"j","a","v","a","1","1">>>>,
        category |-> "technical"],
       [name |-> <<"J","a","v","a","S","c","r","i","p","t">>,
        aliases |-> <<<<"j","s">>, <<"n","o","d","e","j","s">>, <<"n","o","d","e",".","j","s">>>>,
        category |-> "technical"],
       [name |-> <<"C","+","+">>,
        aliases |-> <<<<"c","p","p">>, <<"c"," ","p","l","u","s"," ","p","l","u","s">>>>,
        category |-> "technical"],
       [name |-> <<"R","e","a","c","t">>,
        aliases |-> <<<<"r","e","a","c","t","j","s">>, <<"r","e","a","c","t",".","j","s">>>>,
        category |-> "technical"],
       [name |-> <<"D","j","a","n","g","o">>,
        aliases |-> <<<<"d","j","a","n","g","o"," ","f","r","a","m","e","w","o","r","k">>>>,
        category |-> "technical"],
       [name |-> <<"F","l","a","s","k">>,
        aliases |-> <<<<"f","l","a","s","k"," ","f","r","a","m","e","w","o","r","k">>>>,
        category |-> "technical"],
       [name |-> <<"M","o","n","g","o","D","B">>,
        aliases |-> <<<<"m","o","n","g","o">>, <<"n","o","s","q","l">>>>,
        category |-> "technical"],
       [name |-> <<"P","o","s","t","g","r","e","S","Q","L">>,
        aliases |-> <<<<"p","o","s","t","g","r","e","s">>, <<"p","o","s","t","g","r","e","s","q","l">>>>,
        category |-> "technical"],
       [name |-> <<"M","y","S","Q","L">>,
        aliases |-> <<<<"m","y","s","q","l">>>>,
        category |-> "technical"],
       [name |-> <<"A","W","S">>,
        aliases |-> <<<<"a","m","a","z","o","n"," ","w","e","b"," ","s","e","r","v","i","c","e","s">>, <<"e","c","2">>, <<"s","3">>>>,
        category |-> "technical"],
       [name |-> <<"D","o","c","k","e","r">>,
        aliases |-> <<<<"c","o","n","t","a","i","n","e","r","i","z","a","t","i","o","n">>>>,
        category |-> "technical"],
       [name |-> <<"K","u","b","e","r","n","e","t","e","s">>,
        aliases |-> <<<<"k","8","s">>, <<"k","8">>>>,
        category |-> "technical"],
       [name |-> <<"L","e","a","d","e","r","s","h","i","p">>,
        aliases |-> <<<<"t","e","a","m"," ","l","e","a","d">>, <<"m","a","n","a","g","e">>>>,
        category |-> "soft"],
       [name |-> <<"C","o","m","m","u","n","i","c","a","t","i","o","n">>,
        aliases |-> <<<<"v","e","r","b","a","l">>, <<"w","r","i","t","t","e","n">>>>,
        category |-> "soft"],
       [name |-> <<"P","r","o","b","l","e","m"," ","S","o","l","v","i","n","g">>,
        aliases |-> <<<<"t","r","o","u","b","l","e","s","h","o","o","t","i","n","g">>, <<"a","n","a","l","y","t","i","c","a","l">>>>,
        category |-> "soft"] >>

\* the texts extract_skills is applied to
ExtractorTexts ==
    { \* "I have 5 years of Python and Java experience. Expert in Django and React."
      <<"I"," ","h","a","v","e"," ","5"," ","y","e","a","r","s"," ","o","f",
        " ","P","y","t","h","o","n"," ","a","n","d"," ","J","a","v","a"," ",
        "e","x","p","e","r","i","e","n","c","e","."," ","E","x","p","e","r",
        "t"," ","i","n"," ","D","j","a","n","g","o"," ","a","n","d"," ","R",
        "e","a","c","t",".">>,
      \* "I know C++ and Java"
      <<"I"," ","k","n","o","w"," ","C","+","+"," ","a","n","d"," ","J","a",
        "v","a">>,
      \* "C++"
      <<"C","+","+">>,
      \* "c++11, node.js"
      <<"c","+","+","1","1",","," ","n","o","d","e",".","j","s">>,
      \* "JAVASCRIPT; python3"
      <<"J","A","V","A","S","C","R","I","P","T",";"," ","p","y","t","h","o",
        "n","3">>,
      \* "problem-solving"
      <<"p","r","o","b","l","e","m","-","s","o","l","v","i","n","g">>,
      \* ""
      <<>>,
      \* "sql/mysql"
      <<"s","q","l","/","m","y","s","q","l">>,
      \* "Docker, AWS"
      <<"D","o","c","k","e","r",","," ","A","W","S">> }

\* one (skill_name, method, confidence) tuple
Found(name, method, confidence) ==
    [name |-> name, method |-> method, confidence |-> confidence]

\* _extract_by_ner: what it returns depends on the entities the spaCy model
\* reports; each tuple is a taxonomy key find_skill_by_name returned with a
\* score above 0.7, and carries score * 0.85
NerOutcomes ==
    { <<>>,
      <<Found(<<"J","a","v","a">>, "ner", FMul(FOne, FDivInt(85, 100)))>>,
      <<Found(<<"P","y","t","h","o","n">>, "ner",
              FMul(FDivInt(80, 100), FDivInt(85, 100))),
        Found(<<"C","+","+">>, "ner", FMul(FOne, FDivInt(85, 100)))>> }

\* _extract_by_semantic: what it returns depends on the sentence-transformer
\* model; each tuple is a taxonomy key with a similarity above 0.65 (a float32
\* cosine may come out just above 1), one tuple per sentence and skill
SemanticOutcomes ==
    { <<>>,
      <<Found(<<"P","y","t","h","o","n">>, "semantic", FDivInt(90, 100))>>,
      <<Found(<<"C","+","+">>, "semantic", FDivInt(70, 100)),
        Found(<<"J","a","v","a">>, "semantic", FDivInt(10001, 10000))>>,
      <<Found(<<"R","e","a","c","t">>, "semantic", FDivInt(66, 100)),
        Found(<<"R","e","a","c","t">>, "semantic", FDivInt(95, 100))>> }

\* _extract_by_regex over taxonomy.get_all_skills()
RECURSIVE ExtractByRegex(_, _, _)
ExtractByRegex(skills, text, i) ==
    IF i > Len(skills) THEN <<>>
    ELSE (IF WholeWordSearch(Lower(skills[i]), Lower(text))
          THEN <<Found(skills[i], "regex", FDivInt(80, 100))>>
          ELSE <<>>)
         \o ExtractByRegex(skills, text, i + 1)

\* the loop that fills unique_skills: keyed by the lowercased name, a later
\* tuple replaces an earlier one only when its confidence is higher
RECURSIVE UniqueSkills(_, _, _)
UniqueSkills(all_skills, i, unique_skills) ==
    IF i > Len(all_skills) THEN unique_skills
    ELSE LET key == Lower(all_skills[i].name)
         IN  UniqueSkills(all_skills, i + 1,
                 IF \/ key \notin Range(Keys(unique_skills))
                    \/ FCmp(all_skills[i].confidence,
                            InfoOf(unique_skills, key).confidence) > 0
                 THEN DictPut(unique_skills,
                              [name |-> key, info |-> all_skills[i]])
                 ELSE unique_skills)

\* extracted_skills.sort(key=confidence_score, reverse=True), stable
RECURSIVE InsertByConfidence(_, _)
InsertByConfidence(sorted, skill_data) ==
    IF Len(sorted) = 0 THEN <<skill_data>>
    ELSE IF FCmp(sorted[1].confidence_score, skill_data.confidence_score) >= 0
         THEN <<sorted[1]>> \o InsertByConfidence(Tail(sorted), skill_data)
         ELSE <<skill_data>> \o sorted

RECURSIVE SortByConfidence(_, _, _)
SortByConfidence(extracted_skills, i, sorted) ==
    IF i > Len(extracted_skills) THEN sorted
    ELSE SortByConfidence(extracted_skills, i + 1,
                          InsertByConfidence(sorted, extracted_skills[i]))

\* SkillExtractor.extract_skills, given what the three methods found
ExtractSkills(regex_skills, ner_skills, semantic_skills) ==
    LET Listed(unique_skills) ==
            SortByConfidence(
                [i \in DOMAIN unique_skills |->
                    [name             |-> unique_skills[i].info.name,
                     confidence_score |-> FMin(unique_skills[i].info.confidence,
                                               FOne),
                     method           |-> unique_skills[i].info.method]],
                1, <<>>)
    IN  Listed(UniqueSkills(regex_skills \o ner_skills \o semantic_skills,
                            1, <<>>))

\* one call of extract_skills
ExtractSkillsCall ==
    /\ fn_result = [done |-> FALSE]
    /\ \E ner_skills \in NerOutcomes :
          \E semantic_skills \in SemanticOutcomes :
              fn_result' =
                  [done     |-> TRUE,
                   ner      |-> ner_skills,
                   semantic |-> semantic_skills,
                   skills   |->
                       ExtractSkills(
                           ExtractByRegex(Keys(CreateSkillsDb), fn_args.text, 1),
                           ner_skills, semantic_skills)]
    /\ UNCHANGED <<matcher, embedding_cache, calls, returned, fetch_log,
                   ncalls, fn_args, listed>>

\* extract_skills applied on its own to bounded texts
SpecExtractor ==
    /\ Construct([exists |-> FALSE], {}, {FALSE})
    /\ fn_args \in [text : ExtractorTexts]
    /\ fn_result = [done |-> FALSE]
    /\ [][ExtractSkillsCall]_vars


\* ================================ claims ================================

\* the call of worker c has returned a result
HasReturned(c) == calls[c].pc = "returned"

\* the required skills of the job worker c asked for, in store order
RequiredOf(c) == JobSkills(job_requirements, calls[c].args.target_job)

\* the result worker c returned
ResultOf(c) == calls[c].outcome.result

\* the case-folded skills the enrichment of worker c's call surfaced
HeldBy(c) == {Lower(calls[c].enriched[i].skill) : i \in DOMAIN calls[c].enriched}

\* analyze run on its own from an empty cache, stage after stage: the
\* outcome on an interpreter with and on one without the compensated sum()
AnalyzeAlone(jr, args) ==
    IF args.target_job \notin JobTitles(jr)
    THEN [compensated \in BOOLEAN |-> [kind |-> "ValueError"]]
    ELSE LET reqs        == JobSkills(jr, args.target_job)
             resume_text == OrDefault(args.resume_text,
                                      Join(<<" ">>, args.user_skills))
             job_desc    == OrDefault(args.job_desc, Join(<<" ">>, Keys(reqs)))
             ner         == Stage1FastNer(LoadSkillTaxonomy, resume_text, job_desc)
             enriched    ==
                 [i \in DOMAIN ner.scored |->
                     EnrichedItem(ner.scored[i],
                                  MockBertEmbedding(ner.scored[i].name),
                                  job_desc)]
             matched     == Stage3GraphMatching(enriched, BuildSkillGraph(jr),
                                                args.target_job)
             gaps        == Stage4QuantifiedAnalysis(matched, args.target_job,
                                                     reqs)
         IN  [compensated \in BOOLEAN |->
                 [kind |-> "result",
                  result |-> CompileResults(args.user_skills, args.target_job,
                                            reqs, gaps, matched, compensated)]]

\* every request against every store, with the outcomes of running it alone
AloneRuns ==
    {[store   |-> LoadJobRequirements(source),
      args    |-> input,
      outcome |-> AnalyzeAlone(LoadJobRequirements(source), input)] :
        source \in ConfigSources, input \in CallInputs}

\* for every taxonomy skill, the bits of the MD5 digest of its lowercased
\* name as 384 components -1 / +1
ReferenceEmbeddings ==
    {LET digest == Md5Digest(Encode(Lower(LoadSkillTaxonomy[n].name)))
     IN  [skill  |-> LoadSkillTaxonomy[n].name,
          vector |-> [i \in 1..384 |-> 2 * HashBit(digest, i - 1) - 1]] :
        n \in DOMAIN LoadSkillTaxonomy}

\* C1: an analyze call whose target_job is not a key of the job-requirement
\* store ends in ValueError (JobNotFound) before any stage has run: the call
\* holds no stage output, no result is recorded for it, and the step that
\* starts it leaves the embedding cache and the fetch history as they were.
UnknownJobRaisesBeforeAnyStage ==
    [][\A c \in DOMAIN calls :
          (/\ calls'[c].pc # "idle"
           /\ calls'[c].args.target_job \notin JobTitles(job_requirements))
          => /\ calls'[c].pc = "raised"
             /\ calls'[c].outcome = [kind |-> "ValueError"]
             /\ calls'[c].ner = <<>>
             /\ calls'[c].enriched = <<>>
             /\ calls'[c].matched = <<>>
             /\ \A r \in returned' :
                   r.args = calls'[c].args => r.outcome.kind = "ValueError"
             /\ (ncalls' # ncalls =>
                    /\ embedding_cache' = embedding_cache
                    /\ fetch_log' = fetch_log)]_vars

\* C1 witness: a call for an unknown job has raised while the cache, filled
\* by an earlier call, holds vectors
UnknownJobRaisedOnWarmCache ==
    \E c \in DOMAIN calls :
        /\ calls[c].pc = "raised"
        /\ calls[c].args.target_job \notin JobTitles(job_requirements)
        /\ job_requirements # <<>>
        /\ DOMAIN embedding_cache # {}

\* C2: the graph matching stage emits exactly one entry per required skill
\* of the job, in store order, and each entry is direct with score 1.0,
\* prerequisite_met with score 0.7 or missing with score 0.0.
OneClassifiedEntryPerRequiredSkill ==
    \A c \in DOMAIN calls :
        HasReturned(c) =>
            LET required == Keys(RequiredOf(c))
                matched  == calls[c].matched
            IN  /\ Len(matched) = Len(required)
                /\ \A i \in DOMAIN matched :
                      /\ matched[i].skill = required[i]
                      /\ \/ /\ matched[i].type = "direct"
                            /\ matched[i].match_score = FFromInt(1)
                         \/ /\ matched[i].type = "prerequisite_met"
                            /\ matched[i].match_score = FDivInt(7, 10)
                         \/ /\ matched[i].type = "missing"
                            /\ matched[i].match_score = FZero

\* C2 witness: a returned call whose matched list holds all three
\* classifications
AllThreeClassificationsEmitted ==
    \E c \in DOMAIN calls :
        /\ HasReturned(c)
        /\ {calls[c].matched[i].type : i \in DOMAIN calls[c].matched}
               = {"direct", "prerequisite_met", "missing"}

\* C3: a required skill is direct iff its case-folded name is among the
\* enriched skills; otherwise prerequisite_met iff its prerequisite list is
\* non-empty and every prerequisite (case-folded) is among them; otherwise
\* missing.
ClassificationFollowsRule ==
    \A c \in DOMAIN calls :
        HasReturned(c) =>
            LET required == RequiredOf(c)
                matched  == calls[c].matched
                held     == HeldBy(c)
            IN  /\ Len(matched) = Len(required)
                /\ \A i \in DOMAIN required :
                      LET prerequisites ==
                              Get(required[i].info, "prerequisites", <<>>)
                          is_direct == Lower(required[i].name) \in held
                          is_prerequisite_met ==
                              /\ ~is_direct
                              /\ prerequisites # <<>>
                              /\ \A p \in Range(prerequisites) : Lower(p) \in held
                      IN  /\ (matched[i].type = "direct") <=> is_direct
                          /\ (matched[i].type = "prerequisite_met")
                                 <=> is_prerequisite_met
                          /\ (matched[i].type = "missing")
                                 <=> (~is_direct /\ ~is_prerequisite_met)

\* C3 witness: a held skill all of whose prerequisites are held too was
\* classified direct
HeldSkillWithHeldPrerequisitesDirect ==
    \E c \in DOMAIN calls :
        /\ HasReturned(c)
        /\ \E i \in DOMAIN RequiredOf(c) :
              LET prerequisites ==
                      Get(RequiredOf(c)[i].info, "prerequisites", <<>>)
              IN  /\ prerequisites # <<>>
                  /\ \A p \in Range(prerequisites) : Lower(p) \in HeldBy(c)
                  /\ Lower(RequiredOf(c)[i].name) \in HeldBy(c)
                  /\ calls[c].matched[i].type = "direct"

\* C4: match_percentage (held in tenths) is matched_count / total_required
\* x 100 rounded to one decimal, with matched_count the number of direct or
\* prerequisite_met entries and total_required the number of required
\* skills; it lies within [0, 100] and is 0 for a job without required skills.
MatchPercentageIsRoundedShare ==
    \A c \in DOMAIN calls :
        HasReturned(c) =>
            LET total   == Len(RequiredOf(c))
                matched == calls[c].matched
                count   == Cardinality({i \in DOMAIN matched :
                               matched[i].type \in {"direct", "prerequisite_met"}})
                tenths  == ResultOf(c).match_percentage
                error   == tenths * total - 1000 * count
            IN  /\ tenths \in 0..1000
                /\ total = 0 => tenths = 0
                /\ total > 0 => /\ 2 * error <= total
                                /\ -2 * error <= total

\* C4 witness: one of three required skills matched, reported as 33.3
\* (1/3 x 100 is not a whole number of tenths)
MatchPercentageRoundedToOneDecimal ==
    \E c \in DOMAIN calls :
        /\ HasReturned(c)
        /\ Len(RequiredOf(c)) = 3
        /\ ResultOf(c).match_percentage = 333

\* C5: skill_gaps is ordered by roi non-increasing, and gap items of equal
\* roi appear in the order of their skills in the job's required-skill list.
GapsSortedByRoiStable ==
    \A c \in DOMAIN calls :
        HasReturned(c) =>
            LET gaps     == ResultOf(c).skill_gaps
                required == Keys(RequiredOf(c))
                Position(name) == CHOOSE k \in DOMAIN required : required[k] = name
            IN  \A i, j \in DOMAIN gaps :
                    i < j =>
                        /\ gaps[i].skill_name \in Range(required)
                        /\ gaps[j].skill_name \in Range(required)
                        /\ FCmp(gaps[i].roi, gaps[j].roi) >= 0
                        /\ (FCmp(gaps[i].roi, gaps[j].roi) = 0 =>
                               Position(gaps[i].skill_name)
                                   < Position(gaps[j].skill_name))

\* C5 witness: a returned result holding two gaps of equal roi and two gaps
\* of different roi
GapsWithTiedRoi ==
    \E c \in DOMAIN calls :
        /\ HasReturned(c)
        /\ \E i, j \in DOMAIN ResultOf(c).skill_gaps :
              /\ i < j
              /\ FCmp(ResultOf(c).skill_gaps[i].roi,
                      ResultOf(c).skill_gaps[j].roi) = 0
        /\ \E i, j \in DOMAIN ResultOf(c).skill_gaps :
              FCmp(ResultOf(c).skill_gaps[i].roi,
                   ResultOf(c).skill_gaps[j].roi) > 0

\* the priority the documented thresholds give, in exact arithmetic: with
\* score = 0.60 x (10 - min(h/300 x 10, 10)) + 0.40 x min(s/30000 x 10, 10),
\* 7500 x score = 45000 - 150 x min(h, 300) + min(s, 30000)
ExactPriority(learning_hours, salary_impact) ==
    LET scaled == 45000 - 150 * Min(learning_hours, 300)
                        + Min(salary_impact, 30000)
    IN  IF scaled >= 56250 THEN "critical"
        ELSE IF scaled >= 45000 THEN "high"
        ELSE IF scaled >= 30000 THEN "medium"
        ELSE "low"

\* C6: the priority is the bucket of score = 0.60 x (10 - min(h/300 x 10, 10))
\* + 0.40 x min(s/30000 x 10, 10) with thresholds 7.5, 6.0 and 4.0, a score
\* equal to a threshold falling in the higher bucket, whatever base_priority.
PriorityFollowsThresholds ==
    fn_result # "none" =>
        fn_result = ExactPriority(fn_args.learning_hours, fn_args.salary_impact)

\* C7: when every complexity of the store lies in 1..5, every gap item has
\* difficulty = min(complexity x 2 + required_level, 10) with required_level
\* the level the skill graph holds for the skill, and it lies in 1..10.
DifficultyIsCappedSum ==
    (\A j \in DOMAIN job_requirements :
        \A k \in DOMAIN job_requirements[j].skills :
            Get(job_requirements[j].skills[k].info, "complexity", 3) \in 1..5)
    => \A c \in DOMAIN calls :
          HasReturned(c) =>
              LET gaps  == ResultOf(c).skill_gaps
                  graph == JobGraph(skill_graph, calls[c].args.target_job)
              IN  \A i \in DOMAIN gaps :
                      LET complexity ==
                              Get(InfoOf(RequiredOf(c), gaps[i].skill_name),
                                  "complexity", 3)
                          required_level ==
                              InfoOf(graph, gaps[i].skill_name).level
                      IN  /\ gaps[i].difficulty
                                 = Min(complexity * 2 + required_level, 10)
                          /\ gaps[i].difficulty \in 1..10

\* C7 witness: a returned result with a gap below the cap and a gap whose
\* sum 5 x 2 + 5 is cut to 10
DifficultyBelowAndAtCap ==
    \E c \in DOMAIN calls :
        /\ HasReturned(c)
        /\ \E i, j \in DOMAIN ResultOf(c).skill_gaps :
              /\ ResultOf(c).skill_gaps[i].difficulty = 3
              /\ ResultOf(c).skill_gaps[j].difficulty = 10
              /\ Get(InfoOf(RequiredOf(c), ResultOf(c).skill_gaps[j].skill_name),
                     "complexity", 3) = 5

\* C8: calls with identical arguments end with identical outcomes, whatever
\* calls ran before them and whatever the cache held: every outcome is the
\* one the request has when run alone from an empty cache.
SameArgumentsSameResult ==
    /\ \A a, b \in returned : a.args = b.args => a.outcome = b.outcome
    /\ \A r \in returned :
          \E run \in AloneRuns :
              /\ run.store = job_requirements
              /\ run.args = r.args
              /\ run.outcome[compensated_sum] = r.outcome

\* C8 witness: the same request returned twice, first from a cold cache and
\* then from the cache the first call filled
SameRequestReturnedTwice ==
    \E c \in DOMAIN calls :
        /\ HasReturned(c)
        /\ ncalls = 2
        /\ Cardinality(returned) = 1
        /\ Len(calls[c].enriched) > 0
        /\ \A i \in DOMAIN calls[c].enriched :
              /\ [skill |-> calls[c].enriched[i].skill, hit |-> TRUE,
                  vector |-> calls[c].enriched[i].embedding] \in fetch_log
              /\ [skill |-> calls[c].enriched[i].skill, hit |-> FALSE,
                  vector |-> calls[c].enriched[i].embedding] \in fetch_log

\* C9: with two calls interleaving at the cache test and the cache insert,
\* every vector read or computed for a key is the embedding of that key, the
\* cache holds the embedding of k under every key k it has, and every call
\* returns what it returns when run alone.
ConcurrentCacheRaceHarmless ==
    /\ \A k \in DOMAIN embedding_cache :
          [skill |-> k, vector |-> embedding_cache[k]] \in ReferenceEmbeddings
    /\ \A f \in fetch_log :
          [skill |-> f.skill, vector |-> f.vector] \in ReferenceEmbeddings
    /\ \A c \in DOMAIN calls :
          \A i \in DOMAIN calls[c].enriched :
              [skill  |-> calls[c].enriched[i].skill,
               vector |-> calls[c].enriched[i].embedding] \in ReferenceEmbeddings
    /\ \A r \in returned :
          \E run \in AloneRuns :
              /\ run.store = job_requirements
              /\ run.args = r.args
              /\ run.outcome[compensated_sum] = r.outcome

\* C9 witness: both workers have returned, both fetched one same skill, and
\* no fetch of that skill was a hit: the two calls raced on the key and the
\* loser recomputed the vector
BothWorkersMissedSameKey ==
    /\ DOMAIN calls = {1, 2}
    /\ HasReturned(1)
    /\ HasReturned(2)
    /\ \E i \in DOMAIN calls[1].enriched :
          \E j \in DOMAIN calls[2].enriched :
              /\ calls[1].enriched[i].skill = calls[2].enriched[j].skill
              /\ \A f \in fetch_log :
                    f.skill = calls[1].enriched[i].skill => ~f.hit

\* C10: every fetch of a skill's embedding, miss or hit, returns a vector of
\* 384 components, the same for every fetch of that skill, equal to the one
\* computed from the MD5 digest of the lowercased skill string.
EmbeddingFetchRepeatable ==
    \A f \in fetch_log :
        /\ Len(f.vector) = 384
        /\ [skill |-> f.skill, vector |-> f.vector] \in ReferenceEmbeddings
        /\ \A g \in fetch_log : g.skill = f.skill => g.vector = f.vector

\* C10 witness: one skill was fetched on a miss and fetched again on a hit
\* (a name with an upper-case letter, so that lowercasing matters)
SkillFetchedOnMissAndOnHit ==
    \E f, g \in fetch_log :
        /\ f.skill = g.skill
        /\ ~f.hit
        /\ g.hit
        /\ Lower(f.skill) # f.skill

\* the request of the documented scenario
ScenarioRequest == Args(<<s_Python>>, s_Senior_Data_Scientist, None, None)

\* C11: with the store defining "Senior Data Scientist" with Python {40,
\* 3000, []}, Statistics {100, 5000, []} and Machine Learning {200, 15000,
\* [Python, Statistics]}, analyze(["Python"], "Senior Data Scientist")
\* classifies Python direct and Statistics and Machine Learning missing,
\* reports required_skill_count 3 and match_percentage 33.3, and returns the
\* gaps [Machine Learning (roi 75), Statistics (roi 50)] with the roadmap
\* ["1. Machine Learning", "2. Statistics"].
DocumentedScenarioResult ==
    \A c \in DOMAIN calls :
        (HasReturned(c) /\ calls[c].args = ScenarioRequest) =>
            LET matched == calls[c].matched
                result  == ResultOf(c)
                gaps    == result.skill_gaps
            IN  /\ [i \in DOMAIN matched |-> <<matched[i].skill, matched[i].type>>]
                       = << <<s_Python, "direct">>, <<s_Statistics, "missing">>,
                            <<s_Machine_Learning, "missing">> >>
                /\ result.required_skill_count = 3
                /\ result.match_percentage = 333
                /\ [i \in DOMAIN gaps |-> gaps[i].skill_name]
                       = <<s_Machine_Learning, s_Statistics>>
                /\ [i \in DOMAIN gaps |-> gaps[i].roi]
                       = <<FFromInt(75), FFromInt(50)>>
                /\ result.learning_roadmap
                       = << <<"1", ".", " ">> \o s_Machine_Learning,
                            <<"2", ".", " ">> \o s_Statistics >>

\* C11 witness: the scenario's request has returned against the scenario's
\* store
DocumentedScenarioReturned ==
    \E c \in DOMAIN calls :
        /\ HasReturned(c)
        /\ calls[c].args = ScenarioRequest
        /\ Keys(RequiredOf(c)) = <<s_Python, s_Statistics, s_Machine_Learning>>
        /\ [i \in 1..3 |-> RequiredOf(c)[i].info] =
               << [learning_hours |-> 40, salary_impact |-> 3000,
                   prerequisites |-> <<>>],
                  [learning_hours |-> 100, salary_impact |-> 5000,
                   prerequisites |-> <<>>],
                  [learning_hours |-> 200, salary_impact |-> 15000,
                   prerequisites |-> <<s_Python, s_Statistics>>] >>

\* C12: when the job-requirement source is missing or unreadable at
\* construction, construction does not fail, the store is empty,
\* get_available_jobs returns the empty list and every analyze call, for any
\* target_job, ends in ValueError (JobNotFound).
MissingOrUnreadableSourceFailsOpen ==
    constructed.source \in {"missing", "unreadable"} =>
        /\ constructed.raised = "none"
        /\ job_requirements = <<>>
        /\ (listed # NotListed => listed.jobs = <<>>)
        /\ \A c \in DOMAIN calls :
              calls[c].pc # "idle" =>
                  /\ calls[c].pc = "raised"
                  /\ calls[c].outcome = [kind |-> "ValueError"]

\* C13: matched_skills is the list of the job's required skills whose
\* case-folded name is among the case-folded raw user_skills, in
\* required-skill order, whatever the graph stage classified; user_skill_count
\* is its length (the count behind match_percentage is a separate number).
MatchedSkillsFromRawUserSkills ==
    \A c \in DOMAIN calls :
        HasReturned(c) =>
            LET user_skills == calls[c].args.user_skills
                folded == {Lower(user_skills[i]) : i \in DOMAIN user_skills}
                expected ==
                    SelectSeq(Keys(RequiredOf(c)), LAMBDA n : Lower(n) \in folded)
                listed_skills == ResultOf(c).matched_skills
            IN  /\ [i \in DOMAIN listed_skills |-> listed_skills[i].skill_name]
                       = expected
                /\ ResultOf(c).user_skill_count = Len(expected)

\* C13 witness: a returned result whose user_skill_count is above the number
\* of direct or prerequisite_met entries, and a returned result where it is
\* 0 while every required skill matched
UserSkillCountDiffersFromMatchedCount ==
    /\ \E r \in returned :
          /\ r.outcome.kind = "result"
          /\ r.outcome.result.user_skill_count = 0
          /\ r.outcome.result.match_percentage = 1000
          /\ r.outcome.result.required_skill_count > 0
    /\ \E c \in DOMAIN calls :
          /\ HasReturned(c)
          /\ ResultOf(c).user_skill_count
                 > Cardinality({i \in DOMAIN calls[c].matched :
                       calls[c].matched[i].type \in {"direct", "prerequisite_met"}})

\* the number a string of decimal digits denotes
RECURSIVE DecimalValue(_)
DecimalValue(digits) ==
    IF Len(digits) = 0 THEN 0
    ELSE 10 * DecimalValue(SubSeq(digits, 1, Len(digits) - 1))
         + (IndexOf(DigitChars, digits[Len(digits)]) - 1)

\* C14: learning_roadmap has one entry per gap item, and its i-th entry
\* (from 1) is the decimal numeral of i, ". " and the skill_name of the i-th
\* item of skill_gaps: the roadmap follows the ROI order of skill_gaps, not
\* an order that respects prerequisites.
RoadmapNumbersGapsInOrder ==
    \A c \in DOMAIN calls :
        HasReturned(c) =>
            LET gaps    == ResultOf(c).skill_gaps
                roadmap == ResultOf(c).learning_roadmap
            IN  /\ Len(roadmap) = Len(gaps)
                /\ \A i \in DOMAIN roadmap :
                      LET name   == gaps[i].skill_name
                          entry  == roadmap[i]
                          ndigit == Len(entry) - Len(name) - 2
                      IN  /\ ndigit >= 1
                          /\ \A k \in 1..ndigit : entry[k] \in Range(DigitChars)
                          /\ entry[1] # "0"
                          /\ DecimalValue(SubSeq(entry, 1, ndigit)) = i
                          /\ SubSeq(entry, ndigit + 1, ndigit + 2) = <<".", " ">>
                          /\ SubSeq(entry, ndigit + 3, Len(entry)) = name

\* C14 witness: a roadmap that lists a skill before one of that skill's own
\* prerequisites
RoadmapListsDependentBeforePrerequisite ==
    \E c \in DOMAIN calls :
        /\ HasReturned(c)
        /\ \E i, j \in DOMAIN ResultOf(c).learning_roadmap :
              /\ i < j
              /\ ResultOf(c).skill_gaps[j].skill_name \in
                     Range(Get(InfoOf(RequiredOf(c),
                                      ResultOf(c).skill_gaps[i].skill_name),
                               "prerequisites", <<>>))
              /\ ResultOf(c).learning_roadmap[i] =
                     IntToStr(i) \o <<".", " ">>
                         \o ResultOf(c).skill_gaps[i].skill_name

\* the sum of a sequence of integers
RECURSIVE Total(_)
Total(values) ==
    IF Len(values) = 0 THEN 0
    ELSE values[Len(values)] + Total(SubSeq(values, 1, Len(values) - 1))

\* C15: total_learning_hours is the sum of the gaps' learning_hours,
\* potential_salary_increase the sum of their salary_impact and
\* estimated_weeks (held in tenths) is total_learning_hours / 40 rounded to
\* one decimal; a call for a known job ends with a result whatever the
\* number of gaps, and a result without gaps has
\* total_learning_hours, potential_salary_increase, average_difficulty and
\* market_demand_score equal to 0.
TotalsAreSumsAndZeroWithoutGaps ==
    \A c \in DOMAIN calls :
        /\ (calls[c].pc \in {"returned", "raised"} =>
               (HasReturned(c) <=>
                   calls[c].args.target_job \in JobTitles(job_requirements)))
        /\ HasReturned(c) =>
              LET result == ResultOf(c)
                  gaps   == result.skill_gaps
                  hours  == Total([i \in DOMAIN gaps |-> gaps[i].learning_hours])
              IN  /\ result.total_learning_hours = hours
                  /\ result.potential_salary_increase
                         = Total([i \in DOMAIN gaps |-> gaps[i].salary_impact])
                  /\ 4 * result.estimated_weeks - hours \in -2..2
                  /\ (4 * result.estimated_weeks - hours \in {-2, 2}
                         => result.estimated_weeks % 2 = 0)
                  /\ (Len(gaps) = 0 =>
                         /\ result.total_learning_hours = 0
                         /\ result.potential_salary_increase = 0
                         /\ result.average_difficulty = 0
                         /\ result.market_demand_score = FZero)

\* C15 witness: a returned result without gaps for a job that has required
\* skills, and a returned result with several gaps whose hours / 40 is not
\* a whole number of tenths
ResultsWithoutGapsAndWithRoundedWeeks ==
    /\ \E r \in returned :
          /\ r.outcome.kind = "result"
          /\ r.outcome.result.skill_gaps = <<>>
          /\ r.outcome.result.required_skill_count > 0
    /\ \E r \in returned :
          /\ r.outcome.kind = "result"
          /\ Len(r.outcome.result.skill_gaps) >= 2
          /\ r.outcome.result.total_learning_hours % 4 # 0

\* C16: get_available_jobs returns every job title of the store exactly once
\* and no other title, before the first analyze call and after any number
\* of them.
AvailableJobsAreStoreTitles ==
    listed # NotListed =>
        /\ Range(listed.jobs) = JobTitles(job_requirements)
        /\ \A i, j \in DOMAIN listed.jobs :
              listed.jobs[i] = listed.jobs[j] => i = j
        /\ Len(listed.jobs) = Len(job_requirements)

\* C16 witness: get_available_jobs returned the titles of a store of several
\* profiles after two analyze calls, one of which filled the cache
JobsListedAfterAnalyzeCalls ==
    /\ listed # NotListed
    /\ listed.after >= 2
    /\ Len(listed.jobs) >= 3
    /\ DOMAIN embedding_cache # {}
    /\ \E r \in returned : r.outcome.kind = "ValueError"

\* C18: skill_gaps holds exactly one gap item for each required skill the
\* graph stage classified missing, and none for a skill classified direct or
\* prerequisite_met or for a skill the target job does not require.
OneGapPerMissingSkill ==
    \A c \in DOMAIN calls :
        HasReturned(c) =>
            LET gaps    == ResultOf(c).skill_gaps
                matched == calls[c].matched
                GapsNamed(name) ==
                    Cardinality({i \in DOMAIN gaps : gaps[i].skill_name = name})
            IN  /\ \A i \in DOMAIN matched :
                      GapsNamed(matched[i].skill) =
                          IF matched[i].type = "missing" THEN 1 ELSE 0
                /\ \A i \in DOMAIN gaps :
                      gaps[i].skill_name \in Range(Keys(RequiredOf(c)))

\* C18 witness: a returned result with gaps for a job of which the call
\* also matched a skill directly and a skill through its prerequisites
GapsBesideDirectAndPrerequisiteMatches ==
    \E c \in DOMAIN calls :
        /\ HasReturned(c)
        /\ Len(ResultOf(c).skill_gaps) >= 2
        /\ \E i, j \in DOMAIN calls[c].matched :
              /\ calls[c].matched[i].type = "direct"
              /\ calls[c].matched[j].type = "prerequisite_met"

\* C19: every gap item has learning_hours and salary_impact equal to the
\* store's values for its skill, or 100 and 5000 where the store entry lacks
\* them, roi = salary_impact / max(learning_hours, 1) and
\* weeks_to_proficiency = learning_hours / 40; with learning_hours = 0 the
\* roi is salary_impact.
GapRoiAndWeeksFromStoreOrDefaults ==
    \A c \in DOMAIN calls :
        HasReturned(c) =>
            LET gaps     == ResultOf(c).skill_gaps
                required == RequiredOf(c)
            IN  \A i \in DOMAIN gaps :
                    \E k \in DOMAIN required :
                        LET info   == required[k].info
                            hours  == IF "learning_hours" \in DOMAIN info
                                      THEN info.learning_hours ELSE 100
                            salary == IF "salary_impact" \in DOMAIN info
                                      THEN info.salary_impact ELSE 5000
                        IN  /\ required[k].name = gaps[i].skill_name
                            /\ gaps[i].learning_hours = hours
                            /\ gaps[i].salary_impact = salary
                            /\ gaps[i].roi =
                                   FDivInt(salary, IF hours > 1 THEN hours ELSE 1)
                            /\ (hours = 0 => gaps[i].roi = FFromInt(salary))
                            /\ gaps[i].weeks_to_proficiency = FDivInt(hours, 40)
                            /\ (hours % 40 = 0 =>
                                   gaps[i].weeks_to_proficiency
                                       = FFromInt(hours \div 40))

\* C19 witness: a returned result with a gap whose store entry has
\* learning_hours 0, a gap whose store entry has neither field, and a gap
\* whose store entry has both
GapsWithZeroHoursAndWithDefaults ==
    \E c \in DOMAIN calls :
        /\ HasReturned(c)
        /\ \E i, j, k \in DOMAIN ResultOf(c).skill_gaps :
              LET gaps == ResultOf(c).skill_gaps
                  Info(n) == RequiredOf(c)[CHOOSE m \in DOMAIN RequiredOf(c) :
                                RequiredOf(c)[m].name = gaps[n].skill_name].info
              IN  /\ "learning_hours" \in DOMAIN Info(i)
                  /\ Info(i).learning_hours = 0
                  /\ gaps[i].roi = FFromInt(gaps[i].salary_impact)
                  /\ DOMAIN Info(j) \cap {"learning_hours", "salary_impact"} = {}
                  /\ gaps[j].roi = FFromInt(50)
                  /\ Info(k).learning_hours > 1

\* the text the lexical stage of worker c's call scans
ResumeTextOf(c) ==
    OrDefault(calls[c].args.resume_text, Join(<<" ">>, calls[c].args.user_skills))

\* the lowercased patterns (name and aliases) of a taxonomy entry
PatternsOf(entry) ==
    {Lower(entry.name)} \cup {Lower(entry.aliases[j]) : j \in DOMAIN entry.aliases}

\* the patterns that several canonical skills of the taxonomy share
SharedPatterns ==
    {p \in UNION {PatternsOf(LoadSkillTaxonomy[n]) : n \in DOMAIN LoadSkillTaxonomy} :
        Cardinality({n \in DOMAIN LoadSkillTaxonomy :
                        p \in PatternsOf(LoadSkillTaxonomy[n])}) > 1}

\* the extracted skills of worker c's call that have pattern p
ExtractedOwners(c, p) ==
    {i \in DOMAIN calls[c].ner.extracted :
        \E n \in DOMAIN skill_taxonomy :
            /\ skill_taxonomy[n].name = calls[c].ner.extracted[i].name
            /\ p \in PatternsOf(skill_taxonomy[n])}

\* C20: a mention that matches an alias shared by several canonical skills
\* is resolved to a single canonical skill, the first matching entry in
\* taxonomy order: a text whose only mention is a shared alias puts exactly
\* that one skill into the extracted set.
SharedAliasResolvedToFirstEntry ==
    \A c \in DOMAIN calls :
        \A p \in SharedPatterns :
            (calls[c].pc \notin {"idle", "raised"} /\ Lower(ResumeTextOf(c)) = p) =>
                LET first == CHOOSE n \in DOMAIN skill_taxonomy :
                                 /\ p \in PatternsOf(skill_taxonomy[n])
                                 /\ \A m \in 1..(n - 1) :
                                        p \notin PatternsOf(skill_taxonomy[m])
                IN  Keys(calls[c].ner.extracted) = <<skill_taxonomy[first].name>>

\* C20 as amended: the extracted set holds every canonical skill of the
\* taxonomy one of whose patterns (its name or an alias) occurs in the text
\* as a case-insensitive whole word, each once and in taxonomy order, so a
\* mention of a shared alias puts every skill that has the alias into it.
EveryOwnerOfMentionedPatternExtracted ==
    \A c \in DOMAIN calls :
        calls[c].pc \notin {"idle", "raised"} =>
            LET text == Lower(ResumeTextOf(c))
                Mentioned(name) ==
                    \E n \in DOMAIN skill_taxonomy :
                        /\ skill_taxonomy[n].name = name
                        /\ \E p \in PatternsOf(skill_taxonomy[n]) :
                              WholeWordSearch(p, text)
            IN  /\ Keys(calls[c].ner.extracted)
                       = SelectSeq(Keys(skill_taxonomy), Mentioned)
                /\ \A p \in SharedPatterns :
                      WholeWordSearch(p, text) =>
                          Cardinality(ExtractedOwners(c, p)) > 1

\* C20 witness: a call whose text is one mention of the alias SQL and
\* PostgreSQL share has both skills, and nothing else, in its extracted set
SharedAliasMentionExtractedTwice ==
    \E c \in DOMAIN calls :
        /\ calls[c].pc \notin {"idle", "raised"}
        /\ Lower(ResumeTextOf(c)) \in SharedPatterns
        /\ Keys(calls[c].ner.extracted) = <<s_SQL, s_PostgreSQL>>

\* the skill name occurs in the text, letter case aside, as a whole word:
\* delimited on each side by the text boundary, a blank or punctuation
MentionedAsWord(name, text) ==
    \E i \in 1..Len(text) :
        /\ MatchAt(Lower(text), Lower(name), i)
        /\ (i = 1 \/ ~IsWordChar(text[i - 1]))
        /\ (i + Len(name) > Len(text) \/ ~IsWordChar(text[i + Len(name)]))

\* C17: extract_skills returns every canonical skill of the SkillTaxonomy
\* whose name is mentioned in the text as a case-insensitive whole word, and
\* returns it in exactly one entry, whose confidence_score lies between 0.80
\* and 1.0.
ExtractorReturnsEveryMentionedSkill ==
    fn_result.done =>
        \A n \in DOMAIN CreateSkillsDb :
            MentionedAsWord(CreateSkillsDb[n].name, fn_args.text) =>
                /\ Cardinality({i \in DOMAIN fn_result.skills :
                       fn_result.skills[i].name = CreateSkillsDb[n].name}) = 1
                /\ \A i \in DOMAIN fn_result.skills :
                      fn_result.skills[i].name = CreateSkillsDb[n].name =>
                          /\ FCmp(fn_result.skills[i].confidence_score,
                                  FDivInt(80, 100)) >= 0
                          /\ FCmp(fn_result.skills[i].confidence_score, FOne) <= 0

\* the canonical names of the taxonomy that have a pattern (the name or an
\* alias) mentioned in the text as a whole word, letter case aside
MentionedSkills(taxonomy, text) ==
    {taxonomy[n].name : n \in
        {m \in DOMAIN taxonomy :
            \/ MentionedAsWord(taxonomy[m].name, text)
            \/ \E j \in DOMAIN taxonomy[m].aliases :
                   MentionedAsWord(taxonomy[m].aliases[j], text)}}

\* C21: the regex scan records a canonical taxonomy skill, with confidence
\* 1.0, if and only if its name or one of its aliases occurs in the resume
\* text as a case-insensitive whole word; a mention of nothing in the
\* taxonomy contributes nothing and raises nothing, so the keys of the scan's
\* output are canonical taxonomy names.
RegexScanRecordsExactlyMentionedSkills ==
    \A c \in DOMAIN calls :
        calls[c].pc \notin {"idle", "raised"} =>
            LET extracted == calls[c].ner.extracted
            IN  /\ Range(Keys(extracted))
                       = MentionedSkills(skill_taxonomy, ResumeTextOf(c))
                /\ \A i \in DOMAIN extracted : extracted[i].value = FFromInt(1)
                /\ Range(Keys(extracted)) \subseteq Range(Keys(skill_taxonomy))
                /\ \A i, j \in DOMAIN extracted :
                       extracted[i].name = extracted[j].name => i = j

\* C21 witness: one call's text holds taxonomy patterns only inside longer
\* words and its scan recorded nothing; an earlier call's text mentions a
\* name and two aliases among other words and every required skill was found
ScansOfEmbeddedAndOfMentionedPatterns ==
    /\ \E c \in DOMAIN calls :
          /\ HasReturned(c)
          /\ WholeWordSearchAnywhere(s_python, Lower(ResumeTextOf(c)))
          /\ calls[c].ner.extracted = <<>>
    /\ \E r \in returned :
          /\ r.outcome.kind = "result"
          /\ r.args.resume_text = Some(t_I_know_Python_stats_and_ML)
          /\ r.args.target_job = s_Senior_Data_Scientist
          /\ r.outcome.result.skill_gaps = <<>>

\* the value analyze works with for an optional text argument under the rule
\* "the default only when the argument is not supplied"
SuppliedOr(x, default) == IF x.some THEN x.val ELSE default

\* C22: analyze scans the caller's resume_text and job_desc whenever they are
\* supplied, and takes the space-joined user_skills for resume_text and the
\* space-joined required skill names for job_desc only when the argument is
\* not supplied; a supplied value, the empty string included, is used as
\* given.
SuppliedTextsUsedAsGiven ==
    \A c \in DOMAIN calls :
        calls[c].pc \notin {"idle", "raised"} =>
            /\ calls[c].resume_text
                   = SuppliedOr(calls[c].args.resume_text,
                                Join(<<" ">>, calls[c].args.user_skills))
            /\ calls[c].job_desc
                   = SuppliedOr(calls[c].args.job_desc,
                                Join(<<" ">>, Keys(RequiredOf(c))))
            /\ calls[c].ner.extracted
                   = RegexExtractSkills(skill_taxonomy,
                         SuppliedOr(calls[c].args.resume_text,
                                    Join(<<" ">>, calls[c].args.user_skills)))

\* the bucket a reported match_percentage (in tenths) falls in
BucketTemplate(tenths) ==
    IF tenths >= 800 THEN "excellent"
    ELSE IF tenths >= 600 THEN "good_progress"
    ELSE IF tenths >= 400 THEN "foundation"
    ELSE "training"

\* C23: the recommendation of every result is the template of the bucket the
\* result's reported match_percentage falls in: the >= 80 template when it is
\* at least 80, the >= 60 template in [60, 80), the >= 40 template in
\* [40, 60), and the last template otherwise.
RecommendationFollowsReportedPercentage ==
    fn_result.done =>
        fn_result.result.recommendation.template
            = BucketTemplate(fn_result.result.match_percentage)

\* C24: across any sequence of analyze calls on one matcher the embedding
\* cache only grows: no step removes a key or changes the vector stored under
\* a key, a key enters the cache only in the miss step of a call whose
\* current skill is that exact string, and a hit step leaves the cache as it
\* was.
CacheGrowsOnlyOnMiss ==
    [][ /\ DOMAIN embedding_cache \subseteq DOMAIN embedding_cache'
        /\ \A k \in DOMAIN embedding_cache :
              embedding_cache'[k] = embedding_cache[k]
        /\ \A k \in DOMAIN embedding_cache' \ DOMAIN embedding_cache :
              \E c \in DOMAIN calls :
                  /\ calls[c].pc = "miss"
                  /\ calls'[c].pc = "lookup"
                  /\ CurrentScores(c).name = k
                  /\ DOMAIN embedding_cache'
                         = DOMAIN embedding_cache \cup {k}
        /\ \A c \in DOMAIN calls :
              calls[c].pc = "hit" => embedding_cache' = embedding_cache
      ]_vars

\* C24 witness: after two calls the cache holds several keys spelled with
\* upper-case letters, inserted on misses of both calls, and the second call
\* also fetched a key on a hit
CacheFilledByTwoCallsWithHit ==
    /\ ncalls = 2
    /\ Cardinality(DOMAIN embedding_cache) >= 3
    /\ \A k \in DOMAIN embedding_cache :
          /\ Lower(k) # k
          /\ \E f \in fetch_log : f.skill = k /\ ~f.hit
    /\ \E f \in fetch_log : f.hit
    /\ \E c \in DOMAIN calls :
          /\ HasReturned(c)
          /\ \E i, j \in DOMAIN calls[c].enriched :
                /\ [skill |-> calls[c].enriched[i].skill, hit |-> TRUE,
                    vector |-> calls[c].enriched[i].embedding] \in fetch_log
                /\ [skill |-> calls[c].enriched[j].skill, hit |-> TRUE,
                    vector |-> calls[c].enriched[j].embedding] \notin fetch_log

\* C25: no analyze call, successful or failing, and no get_available_jobs
\* call changes the job-requirement store, the skill taxonomy or the skill
\* graph: after any sequence of calls the three equal their values at the end
\* of construction, and the graph is the projection of the store (same jobs,
\* same required skills, level = complexity, same prerequisites).
KnowledgeStoreUnchangedByCalls ==
    constructed.raised = "none" =>
        /\ job_requirements
               = (IF constructed.source = "present" THEN JobRequirementsFile
                  ELSE <<>>)
        /\ skill_taxonomy = LoadSkillTaxonomy
        /\ skill_graph = BuildSkillGraph(IF constructed.source = "present"
                                         THEN JobRequirementsFile ELSE <<>>)
        /\ GetAvailableJobs(skill_graph) = GetAvailableJobs(job_requirements)
        /\ \A j \in DOMAIN job_requirements :
              LET required == job_requirements[j].skills
                  projected == skill_graph[j].skills
              IN  /\ Keys(projected) = Keys(required)
                  /\ \A k \in DOMAIN required :
                        /\ projected[k].info.level
                               = Get(required[k].info, "complexity", 3)
                        /\ projected[k].info.prerequisites
                               = Get(required[k].info, "prerequisites", <<>>)

\* C25 witness: a matcher built from the present source has run a call that
\* returned a result and a call that raised ValueError, has listed its jobs
\* since, and still holds its three profiles
StoreIntactAfterResultFailureAndListing ==
    /\ constructed.source = "present"
    /\ ncalls = 2
    /\ listed.after = 2
    /\ Len(job_requirements) = 3
    /\ \E r \in returned : r.outcome.kind = "result"
    /\ \E r \in returned : r.outcome.kind = "ValueError"
    /\ \A c \in DOMAIN calls : calls[c].pc \in {"returned", "raised"}

\* C26: every analyze call on a job present in the store runs the lexical,
\* semantic, graph and quantification stages and then the compile step in
\* exactly that order, each exactly once, each consuming only the output of
\* the stage before it, and the call always terminates with a result.  The
\* compile step, consuming only the output of the quantification stage,
\* returns equal results to calls on one job whose gap lists are equal.
CompileConsumesOnlyTheGaps ==
    \A a, b \in returned :
        (/\ a.outcome.kind = "result"
         /\ b.outcome.kind = "result"
         /\ a.args.target_job = b.args.target_job
         /\ a.outcome.result.skill_gaps = b.outcome.result.skill_gaps)
            => a.outcome.result = b.outcome.result

\* the position of worker c's call in the sequence of stages
StagesInOrder(c) ==
    LET call == calls[c]
        reqs == RequiredOf(c)
    IN  /\ call.pc \in {"lookup", "hit", "miss", "returned"} =>
              /\ call.ner = Stage1FastNer(skill_taxonomy, call.resume_text,
                                          call.job_desc)
              /\ Len(call.enriched) = call.idx - 1
              /\ call.idx <= Len(call.ner.scored) + 1
              /\ \A i \in DOMAIN call.enriched :
                    /\ call.enriched[i]
                           = EnrichedItem(call.ner.scored[i],
                                          call.enriched[i].embedding,
                                          call.job_desc)
                    /\ [skill  |-> call.ner.scored[i].name,
                        vector |-> call.enriched[i].embedding]
                           \in ReferenceEmbeddings
        /\ call.pc \in {"lookup", "hit", "miss"} =>
              call.matched = <<>> /\ call.outcome.kind = "none"
        /\ call.pc = "returned" =>
              /\ Len(call.enriched) = Len(call.ner.scored)
              /\ call.matched = Stage3GraphMatching(call.enriched, skill_graph,
                                                    call.args.target_job)
              /\ ResultOf(c).skill_gaps
                     = Stage4QuantifiedAnalysis(call.matched,
                                                call.args.target_job, reqs)
              /\ ResultOf(c)
                     = CompileResults(call.args.user_skills,
                                      call.args.target_job, reqs,
                                      ResultOf(c).skill_gaps, call.matched,
                                      compensated_sum)

\* the number of steps worker c's call still takes before it returns
StepsLeft(c) ==
    IF calls[c].pc = "lookup"
    THEN 2 * (Len(calls[c].ner.scored) - calls[c].idx + 1) + 1
    ELSE IF calls[c].pc \in {"hit", "miss"}
    THEN 2 * (Len(calls[c].ner.scored) - calls[c].idx + 1)
    ELSE 0

\* C26 as amended: every analyze call on a job present in the store runs the
\* lexical stage, the semantic stage (one enrichment per scored skill, in
\* order), the graph stage, the quantification stage and the compile step in
\* that order, each once; each stage takes the output of the stage before it,
\* the compile step takes besides the gaps the graph stage's classifications
\* and the raw user_skills; and the call always ends with a result: a started
\* call always has a next step, and each step lowers the number of steps
\* left before the result.
StagesRunOnceInOrderToAResult ==
    /\ [](\A c \in DOMAIN calls :
            /\ StagesInOrder(c)
            /\ StepsLeft(c) >= 0
            /\ calls[c].pc \in {"hit", "miss"} =>
                   calls[c].idx <= Len(calls[c].ner.scored))
    /\ [][\A c \in DOMAIN calls :
            calls'[c] # calls[c] =>
                \/ /\ calls[c].pc \in {"idle", "returned", "raised"}
                   /\ calls'[c].pc = "raised"
                   /\ ~JobKnown(job_requirements, calls'[c].args.target_job)
                \/ /\ calls[c].pc \in {"idle", "returned", "raised"}
                   /\ calls'[c].pc = "lookup"
                   /\ calls'[c].idx = 1
                   /\ JobKnown(job_requirements, calls'[c].args.target_job)
                \/ /\ calls[c].pc = "lookup"
                   /\ calls'[c].pc \in {"hit", "miss"}
                   /\ StepsLeft(c)' = StepsLeft(c) - 1
                \/ /\ calls[c].pc \in {"hit", "miss"}
                   /\ calls'[c].pc = "lookup"
                   /\ StepsLeft(c)' = StepsLeft(c) - 1
                \/ /\ calls[c].pc = "lookup"
                   /\ StepsLeft(c) = 1
                   /\ calls'[c].pc = "returned"
                   /\ calls'[c].outcome.kind = "result"]_vars

\* C26 witness: a call returned a result after its semantic stage enriched
\* several skills and its graph stage matched a skill through its
\* prerequisites, and an earlier call on the same job returned with the same
\* gaps and another result
CallReturnedThroughAllStages ==
    \E c \in DOMAIN calls :
        /\ HasReturned(c)
        /\ Len(calls[c].enriched) >= 2
        /\ \E i \in DOMAIN calls[c].matched :
              calls[c].matched[i].type = "prerequisite_met"
        /\ \E r \in returned :
              /\ r.outcome.kind = "result"
              /\ r.args.target_job = calls[c].args.target_job
              /\ r.outcome.result.skill_gaps = ResultOf(c).skill_gaps
              /\ r.outcome.result # ResultOf(c)

\* C27: in every result of analyze no skill appears both in matched_skills
\* and in skill_gaps: a required skill reported as one the user already has
\* is never also reported as a gap to learn.
NoSkillBothMatchedAndGap ==
    \A r \in returned :
        r.outcome.kind = "result" =>
            {r.outcome.result.matched_skills[i].skill_name :
                 i \in DOMAIN r.outcome.result.matched_skills}
            \cap {r.outcome.result.skill_gaps[i].skill_name :
                      i \in DOMAIN r.outcome.result.skill_gaps} = {}

\* job descriptions a caller may pass: none, the empty text, one that names
\* no required skill and one that names skills several times
JobDescs ==
    {None, Some(<<>>), Some(t_sql_SQL_mysql),
     Some(<<"p","y","t","h","o","n"," ","P","y","t","h","o","n"," ",
            "P","Y","T","H","O","N"," ","j","a","v","a"," ",
            "s","t","a","t","i","s","t","i","c","s"," ","S","Q","L">>)}

\* every request with every job description, with the outcome of running it
\* alone
AloneRunsByJobDesc ==
    {[store   |-> LoadJobRequirements(source),
      args    |-> [input EXCEPT !.job_desc = d],
      outcome |-> AnalyzeAlone(LoadJobRequirements(source),
                               [input EXCEPT !.job_desc = d])] :
        source \in ConfigSources, input \in CallInputs, d \in JobDescs}

\* C28: the result of analyze does not depend on job_desc: a call returns
\* what the call with the same user_skills, target_job and resume_text and
\* any other job_desc, supplied or not, returns, although the term-frequency
\* and context scores the stages compute differ with job_desc.
ResultIndependentOfJobDesc ==
    \A r \in returned :
        \A d \in JobDescs :
            \E run \in AloneRunsByJobDesc :
                /\ run.store = job_requirements
                /\ run.args = [r.args EXCEPT !.job_desc = d]
                /\ run.outcome[compensated_sum] = r.outcome

\* C28 witness: a call with a supplied job_desc returned a result; its
\* enriched skills carry term-frequency and context scores other than the
\* ones the default job_desc gives them
CallWithJobDescScoredDifferently ==
    \E c \in DOMAIN calls :
        /\ HasReturned(c)
        /\ calls[c].args.job_desc.some
        /\ Len(calls[c].enriched) >= 2
        /\ LET default == Join(<<" ">>, Keys(RequiredOf(c)))
           IN  \A i \in DOMAIN calls[c].enriched :
                   /\ calls[c].enriched[i].tfidf_score
                          # TfidfScore(calls[c].ner.normalized, default)[i].tfidf_score
                   /\ calls[c].enriched[i].context_score
                          # CalculateContextScore(calls[c].enriched[i].skill,
                                                  calls[c].enriched[i].embedding,
                                                  default)

\* skill lists a caller may pass beside a resume text
UserSkillLists ==
    {<<>>, <<s_Python>>, <<s_Machine_Learning, s_Statistics>>,
     <<s_Go, <<"s","q","l">>, s_Java>>}

\* an outcome without the two fields computed from the raw user_skills
WithoutMatchedSkills(outcome) ==
    IF outcome.kind = "result"
    THEN [outcome EXCEPT !.result.matched_skills = <<>>,
                         !.result.user_skill_count = 0]
    ELSE outcome

\* every request that supplies a non-empty resume_text, with every skill
\* list, and the outcome of running it alone
AloneRunsByUserSkills ==
    {[store   |-> LoadJobRequirements(source),
      args    |-> [input EXCEPT !.user_skills = skills],
      outcome |-> AnalyzeAlone(LoadJobRequirements(source),
                               [input EXCEPT !.user_skills = skills])] :
        source \in ConfigSources,
        input \in {i \in CallInputs :
                      i.resume_text.some /\ Len(i.resume_text.val) > 0},
        skills \in UserSkillLists}

\* C29: when a non-empty resume_text is supplied, user_skills influences only
\* matched_skills and user_skill_count: the call returns, in every other
\* field (match_percentage, skill_gaps, learning_roadmap, recommendation and
\* the totals), what the call with the same target_job and resume_text and
\* any other user_skills returns.
UserSkillsOnlyInMatchedSkills ==
    \A r \in returned :
        (r.args.resume_text.some /\ Len(r.args.resume_text.val) > 0) =>
            \A skills \in UserSkillLists :
                \E run \in AloneRunsByUserSkills :
                    /\ run.store = job_requirements
                    /\ run.args = [r.args EXCEPT !.user_skills = skills]
                    /\ WithoutMatchedSkills(run.outcome[compensated_sum])
                           = WithoutMatchedSkills(r.outcome)

\* C29 witness: a call with a resume text returned a result with gaps and a
\* matched skill, and the same call with another skill list returns another
\* result
ResumeCallWhoseSkillListMatters ==
    \E r \in returned :
        /\ r.outcome.kind = "result"
        /\ r.args.resume_text.some
        /\ Len(r.args.resume_text.val) > 0
        /\ r.outcome.result.user_skill_count >= 1
        /\ Len(r.outcome.result.skill_gaps) >= 1
        /\ \E run \in AloneRunsByUserSkills :
              /\ run.store = job_requirements
              /\ run.args = [r.args EXCEPT !.user_skills = <<>>]
              /\ run.outcome[compensated_sum] # r.outcome

\* C30: in every reachable state, whatever texts the analyze calls submitted,
\* every key of the embedding cache is a canonical name of the matcher's
\* skill taxonomy, so the cache never holds more entries than the taxonomy
\* has canonical skills.
CacheKeysAreCanonicalNames ==
    /\ DOMAIN embedding_cache \subseteq Range(Keys(skill_taxonomy))
    /\ Cardinality(DOMAIN embedding_cache) <= Len(skill_taxonomy)
    /\ \A f \in fetch_log : f.skill \in Range(Keys(skill_taxonomy))

\* C30 witness: two calls have returned, one of them on a text with a word
\* that is no taxonomy pattern and one on a text that mentions skills by
\* alias and in other letter case; the cache holds four canonical names and
\* none of the words as submitted
CacheAfterTextsWithUnknownWordsAndAliases ==
    /\ Cardinality(DOMAIN embedding_cache) >= 4
    /\ \E r \in returned :
          /\ r.outcome.kind = "result"
          /\ \E i \in DOMAIN r.args.user_skills :
                /\ r.args.user_skills[i] \notin Range(Keys(skill_taxonomy))
                /\ r.args.user_skills[i] \notin DOMAIN embedding_cache
    /\ \E r \in returned :
          /\ r.outcome.kind = "result"
          /\ r.args.resume_text.some
          /\ WholeWordSearchAnywhere(<<"s","p","r","i","n","g">>,
                                     r.args.resume_text.val)
          /\ <<"S","p","r","i","n","g"," ","B","o","o","t">>
                 \in DOMAIN embedding_cache
====
